---- MODULE Spec2Model ----
(***************************************************************************)
(* A model of roq, a jq-style query language: a filter string is parsed    *)
(* into a Query tree and the tree is executed against a JSON document,     *)
(* giving a sequence of result documents or an error.                      *)
(*                                                                         *)
(* The sources hold two generations of the evaluator:                      *)
(*   - query.rs / parse.rs : Query::Index(i, opt, next), Iterator(opt,     *)
(*     next), Spliterator, Pipe, with the optional flag and the rest of    *)
(*     the postfix chain stored inside the node;                           *)
(*   - combinator.rs / index.rs : the nodes Split, Chain, Optional and     *)
(*     Index(Index) with one execute each.                                 *)
(* Both are modelled, each definition from its own source.                 *)
(***************************************************************************)
EXTENDS Integers, Sequences, FiniteSets, TLC

VARIABLES
    filter,           \* the filter text handed to parse (a sequence of characters)
    query,            \* the Query tree: parsed from filter, or built directly
    value,            \* the input document
    overflow_checks,  \* build profile: TRUE = debug (overflow panics), FALSE = release (wraps)
    result,           \* outcome of Query::execute
    pc                \* "parse" -> "ready" -> "done"

vars == <<filter, query, value, overflow_checks, result, pc>>

----------------------------------------------------------------------------
(* Bounds of the model *)

\* longest array among the input documents
MaxLen == 2

\* most entries of an object construction
MaxEntries == 2

----------------------------------------------------------------------------
(* serde_json::Value.  A value is a tuple whose first element is its kind. *)
(* Strings are sequences of one-character strings (one byte each).        *)
(* An Object is a BTreeMap: a sequence of <<key, value>> sorted by key.    *)

Null == <<"null">>
Bool(b) == <<"bool", b>>
Num(n) == <<"number", n>>
Str(s) == <<"string", s>>
Arr(a) == <<"array", a>>
Obj(m) == <<"object", m>>

is_null(v) == v[1] = "null"

\* fn type_str
type_str(v) == v[1]

\* Map::get
map_get(m, s) ==
    IF \E i \in 1..Len(m) : m[i][1] = s
    THEN <<"Some", m[CHOOSE i \in 1..Len(m) : m[i][1] = s][2]>>
    ELSE <<"None">>

\* (mutant of Map::values: the values come last entry first)
map_values_reversed(m) == [i \in 1..Len(m) |-> m[Len(m) + 1 - i][2]]

\* Map::values
map_values(m) == [i \in 1..Len(m) |-> m[i][2]]

----------------------------------------------------------------------------
(* QueryResult = Result<Vec<Value>, QueryError>; a panic unwinds through   *)
(* every caller and is a third outcome.                                    *)

Ok(vs) == <<"ok", vs>>
Err(e) == <<"err", e>>
Panic(msg) == <<"panic", msg>>

IsOk(r) == r[1] = "ok"
IsErr(r) == r[1] = "err"
IsPanic(r) == r[1] = "panic"

\* (mutant of QueryError::Index: the two fields are exchanged)
ErrIndex_swapped(found, with) == <<"Index", with, found>>

ErrIndex(found, with) == <<"Index", found, with>>
ErrIterate(found) == <<"Iterate", found>>
ErrObjectKey(found) == <<"ObjectKey", found>>

\* (mutant of single: the value is dropped)
single_dropping(v) == Ok(<<>>)

single(v) == Ok(<<v>>)
null == single(Null)
empty == Ok(<<>>)

----------------------------------------------------------------------------
(* i32 and usize arithmetic *)

I32_MAX == 2147483647
I32_MIN == -I32_MAX - 1

\* `-i` on i32: overflows for i32::MIN only; with overflow checks the
\* program panics, without them the value wraps to i32::MIN.
NegOverflows(i) == i = I32_MIN
WrappingNeg(i) == IF i = I32_MIN THEN I32_MIN ELSE -i

\* `x as usize`: a negative x becomes x + 2^64, which is above every length
\* the model holds; I32_MAX stands for it in the comparisons with lengths.
AsUsize(x) == IF x < 0 THEN I32_MAX ELSE x

----------------------------------------------------------------------------
(* range.rs: Range(Option<i32>, Option<i32>) *)

None == <<>>
Some(x) == <<x>>

Range_new(l, u) == <<Some(l), Some(u)>>
Range_lower(i) == <<Some(i), None>>
Range_upper(i) == <<None, Some(i)>>

\* the closure normalize_bound of Range::normalize: Ok(position), or a panic
\* when `-bound` overflows under overflow checks
normalize_bound(bound, len) ==
    IF bound < 0
    THEN IF NegOverflows(bound) /\ overflow_checks
         THEN Panic("attempt to negate with overflow")
         ELSE LET u == AsUsize(WrappingNeg(bound))
              IN  IF u > len THEN Ok(0) ELSE Ok(len - u)
    ELSE LET u == AsUsize(bound)
         IN  IF u > len THEN Ok(len) ELSE Ok(u)

\* Range::normalize: std::ops::Range<usize> as <<"range", start, end>>.  The
\* lower bound is mapped first, then the upper one.
normalize(r, len) ==
    LET l == IF r[1] = None THEN <<"none">> ELSE normalize_bound(r[1][1], len)
        u == IF r[2] = None THEN <<"none">> ELSE normalize_bound(r[2][1], len)
    IN  IF IsPanic(l) THEN l
        ELSE IF IsPanic(u) THEN u
        ELSE IF l[1] = "none" /\ u[1] = "none" THEN Panic("unreachable")
        ELSE IF l[1] = "none" THEN <<"range", 0, u[2]>>
        ELSE IF u[1] = "none" THEN <<"range", l[2], len>>
        ELSE <<"range", l[2], u[2]>>

\* s[range] / vec[range]: slicing panics when the range starts after its end
SliceOf(seq, range) ==
    IF range[2] > range[3] THEN Panic("slice index starts after its end")
    ELSE Ok(SubSeq(seq, range[2] + 1, range[3]))

----------------------------------------------------------------------------
(* Index (query.rs 25-30, index.rs 19-24) *)

Index_String(s) == <<"String", s>>
Index_Integer(i) == <<"Integer", i>>
Index_Slice(r) == <<"Slice", r>>

----------------------------------------------------------------------------
(* query.rs: enum Query and its evaluation *)

Empty == <<"Empty">>
Identity == <<"Identity">>
Index(i, opt, next) == <<"Index", i, opt, next>>
Iterator(opt, next) == <<"Iterator", opt, next>>
Spliterator(curr, next) == <<"Spliterator", curr, next>>
Pipe(curr, next) == <<"Pipe", curr, next>>

RECURSIVE Flatten(_)
Flatten(vss) ==
    IF vss = <<>> THEN <<>> ELSE Head(vss) \o Flatten(Tail(vss))

RECURSIVE FlattenReversed(_)
FlattenReversed(vss) ==
    IF vss = <<>> THEN <<>> ELSE FlattenReversed(Tail(vss)) \o Head(vss)

\* (mutant of iterate_results: the vectors are joined last to first)
iterate_results_reversed(rs) ==
    IF \E i \in 1..Len(rs) : ~IsOk(rs[i])
    THEN rs[CHOOSE i \in 1..Len(rs) : ~IsOk(rs[i]) /\ \A j \in 1..(i - 1) : IsOk(rs[j])]
    ELSE Ok(FlattenReversed([i \in 1..Len(rs) |-> rs[i][2]]))

\* fn iterate_results: collect::<Result<Vec<_>, _>>()? stops at the first
\* item that is not Ok (the items are produced lazily, in order), otherwise
\* the vectors are flattened in order
iterate_results(rs) ==
    IF \E i \in 1..Len(rs) : ~IsOk(rs[i])
    THEN rs[CHOOSE i \in 1..Len(rs) : ~IsOk(rs[i]) /\ \A j \in 1..(i - 1) : IsOk(rs[j])]
    ELSE Ok(Flatten([i \in 1..Len(rs) |-> rs[i][2]]))

\* fn check
check(r, opt) ==
    IF IsPanic(r) THEN r
    ELSE IF IsOk(r) \/ ~opt THEN r ELSE empty

RECURSIVE execute(_, _)

\* (mutant of iterate_values: only the first value is piped into next)
iterate_values_first_only(iter, next) ==
    iterate_results([i \in 1..(IF iter = <<>> THEN 0 ELSE 1) |-> execute(next, iter[i])])

\* fn iterate_values
iterate_values(iter, next) ==
    iterate_results([i \in 1..Len(iter) |-> execute(next, iter[i])])

\* (mutant of object_index: a missing key is an error)
object_index_strict(map, s, next) ==
    LET got == map_get(map, s)
    IN  IF got[1] = "Some" THEN execute(next, got[2])
        ELSE Err(ErrIndex("object", "string"))

\* fn object_index
object_index(map, s, next) ==
    LET got == map_get(map, s)
    IN  IF got[1] = "Some" THEN execute(next, got[2]) ELSE null

\* fn array_index
array_index(arr, i, next) ==
    IF i < 0 /\ NegOverflows(i) /\ overflow_checks
    THEN Panic("attempt to negate with overflow")
    ELSE IF i < 0 /\ AsUsize(WrappingNeg(i)) >= Len(arr)
    THEN null
    ELSE LET idx == IF i < 0 THEN Len(arr) - AsUsize(WrappingNeg(i)) ELSE AsUsize(i)
         IN  IF idx < Len(arr) THEN execute(next, arr[idx + 1]) ELSE null

\* fn index
index(v, i, next) ==
    IF v[1] = "string" /\ i[1] = "Slice" THEN
        LET range == normalize(i[2], Len(v[2]))
            sliced == SliceOf(v[2], range)
        IN  IF IsPanic(range) THEN range
            ELSE IF IsPanic(sliced) THEN sliced
            ELSE execute(next, Str(sliced[2]))
    ELSE IF v[1] = "array" /\ i[1] = "Slice" THEN
        LET range == normalize(i[2], Len(v[2]))
            sliced == SliceOf(v[2], range)
        IN  IF IsPanic(range) THEN range
            ELSE IF IsPanic(sliced) THEN sliced
            ELSE execute(next, Arr(sliced[2]))
    ELSE IF v[1] = "object" /\ i[1] = "String" THEN object_index(v[2], i[2], next)
    ELSE IF v[1] = "array" /\ i[1] = "Integer" THEN array_index(v[2], i[2], next)
    ELSE IF i[1] = "String" THEN Err(ErrIndex(type_str(v), "string"))
    ELSE IF i[1] = "Integer" THEN Err(ErrIndex(type_str(v), "number"))
    ELSE Err(ErrIndex(type_str(v), "slice"))

\* fn pipe
pipe(v, curr, next) ==
    LET first == execute(curr, v)
    IN  IF ~IsOk(first) THEN first ELSE iterate_values(first[2], next)

\* fn split: vec![..] evaluates both branches before iterate_results runs
split(v, curr, next) ==
    LET l == execute(curr, v)
        r == execute(next, v)
    IN  IF IsPanic(l) THEN l
        ELSE IF IsPanic(r) THEN r
        ELSE iterate_results(<<l, r>>)

\* fn iterate
iterate(v, next) ==
    IF v[1] = "array" THEN iterate_values(v[2], next)
    ELSE IF v[1] = "object" THEN iterate_values(map_values(v[2]), next)
    ELSE Err(ErrIterate(type_str(v)))

----------------------------------------------------------------------------
(* index.rs: impl Executable for Index *)

\* fn index_object
index_object(map, s) ==
    LET got == map_get(map, s)
    IN  IF got[1] = "Some" THEN single(got[2]) ELSE null

\* fn index_array
index_array(arr, i) ==
    IF i < 0 /\ NegOverflows(i) /\ overflow_checks
    THEN Panic("attempt to negate with overflow")
    ELSE IF i < 0 /\ AsUsize(WrappingNeg(i)) >= Len(arr)
    THEN null
    ELSE LET idx == IF i < 0 THEN Len(arr) - AsUsize(WrappingNeg(i)) ELSE AsUsize(i)
         IN  IF idx < Len(arr) THEN single(arr[idx + 1]) ELSE null

\* Index::execute
Index_execute(self, v) ==
    IF v[1] = "string" /\ self[1] = "Slice" THEN
        LET range == normalize(self[2], Len(v[2]))
            sliced == SliceOf(v[2], range)
        IN  IF IsPanic(range) THEN range
            ELSE IF IsPanic(sliced) THEN sliced
            ELSE single(Str(sliced[2]))
    ELSE IF v[1] = "array" /\ self[1] = "Slice" THEN
        LET range == normalize(self[2], Len(v[2]))
            sliced == SliceOf(v[2], range)
        IN  IF IsPanic(range) THEN range
            ELSE IF IsPanic(sliced) THEN sliced
            ELSE single(Arr(sliced[2]))
    ELSE IF v[1] = "object" /\ self[1] = "String" THEN index_object(v[2], self[2])
    ELSE IF v[1] = "array" /\ self[1] = "Integer" THEN index_array(v[2], self[2])
    ELSE IF self[1] = "String" THEN Err(ErrIndex(type_str(v), "string"))
    ELSE IF self[1] = "Integer" THEN Err(ErrIndex(type_str(v), "number"))
    ELSE Err(ErrIndex(type_str(v), "slice"))

----------------------------------------------------------------------------
(* combinator.rs: the nodes Split(Query, Query), Chain(Query, Query) and   *)
(* Optional(Query); self[2] is self.0 and self[3] is self.1                *)

Split(l, r) == <<"Split", l, r>>
Chain(f, s) == <<"Chain", f, s>>
Optional(inner) == <<"Optional", inner>>

\* Split::execute
Split_execute(self, v) ==
    LET l == execute(self[2], v)
        r == execute(self[3], v)
    IN  IF IsPanic(l) THEN l
        ELSE IF IsPanic(r) THEN r
        ELSE iterate_results(<<l, r>>)

\* Chain::execute
Chain_execute(self, v) ==
    LET first == execute(self[2], v)
    IN  IF ~IsOk(first) THEN first ELSE iterate_values(first[2], self[3])

\* (mutant of Optional::execute: the error of the inner query is passed on)
Optional_execute_rethrowing(self, v) == execute(self[2], v)

\* Optional::execute
Optional_execute(self, v) ==
    LET r == execute(self[2], v)
    IN  IF IsPanic(r) THEN r
        ELSE IF IsOk(r) THEN Ok(r[2]) ELSE empty

----------------------------------------------------------------------------
(* construction.rs: array and object construction *)

Contruct(c) == <<"Contruct", c>>
Construct_Array(inner) == <<"Array", inner>>
Construct_Object(kvs) == <<"Object", kvs>>
Key_Simple(s) == <<"Simple", s>>
Key_Query(q) == <<"Query", q>>

\* (mutant of construct_array: the results are not wrapped in an Array)
construct_array_unwrapped(v, inner) == execute(inner, v)

\* fn construct_array
construct_array(v, inner) ==
    LET r == execute(inner, v)
    IN  IF ~IsOk(r) THEN r ELSE Ok(<<Arr(r[2])>>)

\* the characters of the keys, in the order of their bytes
Alphabet ==
    <<"0", "1", "2", "3", "4", "5", "6", "7", "8", "9",
      "A", "B", "C", "D", "E", "F", "G", "H", "I", "J", "K", "L", "M",
      "N", "O", "P", "Q", "R", "S", "T", "U", "V", "W", "X", "Y", "Z",
      "a", "b", "c", "d", "e", "f", "g", "h", "i", "j", "k", "l", "m",
      "n", "o", "p", "q", "r", "s", "t", "u", "v", "w", "x", "y", "z">>

byte_rank(c) == CHOOSE i \in 1..Len(Alphabet) : Alphabet[i] = c

\* the order of String keys in the map: bytewise, a prefix first
RECURSIVE key_lt(_, _)
key_lt(a, b) ==
    IF b = <<>> THEN FALSE
    ELSE IF a = <<>> THEN TRUE
    ELSE IF Head(a) = Head(b) THEN key_lt(Tail(a), Tail(b))
    ELSE byte_rank(Head(a)) < byte_rank(Head(b))

\* (mutant of Map::insert: the value of a key the map holds is kept)
map_insert_keeping(m, k, v) ==
    IF \E e \in 1..Len(m) : m[e][1] = k THEN m
    ELSE SelectSeq(m, LAMBDA e : key_lt(e[1], k)) \o <<<<k, v>>>>
            \o SelectSeq(m, LAMBDA e : key_lt(k, e[1]))

\* Map::insert: the value of a key the map holds is replaced, a new key is
\* entered at its place in the order of the keys
map_insert(m, k, v) ==
    IF \E e \in 1..Len(m) : m[e][1] = k
    THEN [e \in 1..Len(m) |-> IF m[e][1] = k THEN <<k, v>> ELSE m[e]]
    ELSE SelectSeq(m, LAMBDA e : key_lt(e[1], k)) \o <<<<k, v>>>>
            \o SelectSeq(m, LAMBDA e : key_lt(k, e[1]))

\* (mutant of the key loop: a result that is not a String is skipped)
eval_key_skipping(v, key) ==
    IF key[1] = "Simple" THEN Ok(<<key[2]>>)
    ELSE LET r == execute(key[2], v)
             strings == SelectSeq(r[2], LAMBDA k : k[1] = "string")
         IN  IF ~IsOk(r) THEN r
             ELSE Ok([i \in 1..Len(strings) |-> strings[i][2]])

\* construct_object, lines 54-66: the keys of one entry.  A computed key
\* fails with its query's failure, or with ObjectKey and the type of the
\* first result that is not a String.
eval_key(v, key) ==
    IF key[1] = "Simple" THEN Ok(<<key[2]>>)
    ELSE LET r == execute(key[2], v)
         IN  IF ~IsOk(r) THEN r
             ELSE IF \E i \in 1..Len(r[2]) : r[2][i][1] # "string"
             THEN Err(ErrObjectKey(type_str(
                    r[2][CHOOSE i \in 1..Len(r[2]) :
                            /\ r[2][i][1] # "string"
                            /\ \A j \in 1..(i - 1) : r[2][j][1] = "string"])))
             ELSE Ok([i \in 1..Len(r[2]) |-> r[2][i][2]])

\* construct_object, lines 53-71: one pass of the first loop, the keys
\* before the values: <<"ok", keys, values>> or the failure
eval_entry(v, kv) ==
    LET keys == eval_key(v, kv[1])
        values == execute(kv[2], v)
    IN  IF ~IsOk(keys) THEN keys
        ELSE IF ~IsOk(values) THEN values
        ELSE <<"ok", keys[2], values[2]>>

\* (mutant of the loop of lines 76-82: each key is paired with the first
\* value only)
single_perms_first_value(keys, values) ==
    [p \in 1..(IF values = <<>> THEN 0 ELSE Len(keys)) |-> <<keys[p], values[1]>>]

\* construct_object, lines 76-82: the pairs of one entry, the keys in the
\* outer loop and the values in the inner one
single_perms(keys, values) ==
    [p \in 1..(Len(keys) * Len(values)) |->
        <<keys[((p - 1) \div Len(values)) + 1], values[((p - 1) % Len(values)) + 1]>>]

\* construct_object, line 87: fold(1, |i, v| i * v.len())
RECURSIVE perms_product(_)
perms_product(perms) ==
    IF perms = <<>> THEN 1 ELSE Len(Head(perms)) * perms_product(Tail(perms))

\* construct_object, lines 89-100: the map of one combination x, the entries
\* taken from j on
RECURSIVE combination(_, _, _, _)
combination(perms, j, x, map) ==
    IF j > Len(perms) THEN map
    ELSE LET l == Len(perms[j])
             kv == perms[j][(x % l) + 1]
         IN  combination(perms, j + 1, x \div l, map_insert(map, kv[1], kv[2]))

\* fn construct_object
construct_object(v, kvs) ==
    LET entries == [i \in 1..Len(kvs) |-> eval_entry(v, kvs[i])]
    IN  IF \E i \in 1..Len(kvs) : ~IsOk(entries[i])
        THEN entries[CHOOSE i \in 1..Len(kvs) :
                        ~IsOk(entries[i]) /\ \A j \in 1..(i - 1) : IsOk(entries[j])]
        ELSE LET combined_perms ==
                     [i \in 1..Len(kvs) |-> single_perms(entries[i][2], entries[i][3])]
             IN  Ok([i \in 1..perms_product(combined_perms) |->
                        Obj(combination(combined_perms, 1, i - 1, <<>>))])

\* Construct::execute
Construct_execute(self, v) ==
    CASE self[1] = "Array" -> construct_array(v, self[2])
      [] self[1] = "Object" -> construct_object(v, self[2])

----------------------------------------------------------------------------
(* raw.rs: a literal value *)

Raw(v) == <<"Raw", v>>

\* Raw::execute
Raw_execute(self, v) == single(self[2])

----------------------------------------------------------------------------
(* operators.rs: binary operators.                                         *)
(* serde_json::Number is an exact integer, <<"number", n>>, or a float,    *)
(* <<"number", "f64", p, q>>: the fraction p / q in lowest terms, q > 0.   *)
(* The integers of TLC have 32 bits, so the i64 of the program is held    *)
(* at a width of IntWidth bits; +, -, *, / and % overflow at the ends of  *)
(* the range in the same way at every width.                              *)

IntWidth == 8

I64_MAX == 2 ^ (IntWidth - 1) - 1
I64_MIN == -I64_MAX - 1

FitsI64(x) == I64_MIN <= x /\ x <= I64_MAX

\* the two's complement value of x at the width of i64
WrapI64(x) == ((x - I64_MIN) % (2 ^ IntWidth)) + I64_MIN

Abs(x) == IF x < 0 THEN -x ELSE x

RECURSIVE GCD(_, _)
GCD(a, b) == IF b = 0 THEN a ELSE GCD(b, a % b)

\* Rust `/` and `%` on integers: the quotient is truncated towards zero and
\* the remainder has the sign of the dividend
TruncDiv(a, b) ==
    LET q == Abs(a) \div Abs(b)
    IN  IF (a < 0) # (b < 0) THEN -q ELSE q

TruncRem(a, b) == a - b * TruncDiv(a, b)

\* Number::from_f64 of the finite value p / q (the model forms no NaN and no
\* infinity, for which from_f64 gives None)
from_f64(p, q) ==
    LET g == GCD(Abs(p), Abs(q))
        s == IF q < 0 THEN -1 ELSE 1
    IN  <<"number", "f64", (s * p) \div g, (s * q) \div g>>

\* Number::as_i64: None for a float
as_i64(n) == IF Len(n) = 2 THEN Some(n[2]) ELSE None

\* Number::as_u64: None for a float and for a negative integer
as_u64(n) == IF Len(n) = 2 /\ n[2] >= 0 THEN Some(n[2]) ELSE None

\* Number::as_f64, as the fraction <<p, q>>
as_f64(n) == IF Len(n) = 2 THEN <<n[2], 1>> ELSE <<n[3], n[4]>>

Sign_Add == "Add"
Sign_Sub == "Sub"
Sign_Mul == "Mul"
Sign_Div == "Div"
Sign_Mod == "Mod"

Op(left, sign, right) == <<"Op", left, sign, right>>

ErrOperation(name, l, r) == <<"Operation", name, l, r>>
ErrNumerical == <<"Numerical">>

\* (mutant of chain_collect into a Map: the entries of a are entered last)
RECURSIVE chain_collect_map_left_wins(_, _)
chain_collect_map_left_wins(a, b) ==
    IF a = <<>> THEN b
    ELSE LET rest == chain_collect_map_left_wins(Tail(a), b)
         IN  map_insert(rest, Head(a)[1], Head(a)[2])

\* chain_collect into a Map: the entries of a, then those of b, are entered
\* one by one
RECURSIVE chain_collect_map(_, _)
chain_collect_map(a, b) ==
    IF b = <<>> THEN a
    ELSE chain_collect_map(map_insert(a, Head(b)[1], Head(b)[2]), Tail(b))

\* chain_collect into a String or a Vec
chain_collect(a, b) == a \o b

\* the closures |a, b| a + b, a - b and a * b on i64
int_op(op, a, b) ==
    CASE op = "add" -> a + b
      [] op = "sub" -> a - b
      [] op = "mul" -> a * b

\* the same closures on f64
float_op(op, x, y) ==
    CASE op = "add" -> <<x[1] * y[2] + y[1] * x[2], x[2] * y[2]>>
      [] op = "sub" -> <<x[1] * y[2] - y[1] * x[2], x[2] * y[2]>>
      [] op = "mul" -> <<x[1] * y[1], x[2] * y[2]>>

\* fn combine_numbers.  i(n, m) overflows when the exact result is outside
\* i64: a panic with overflow checks, the wrapped value without them.
combine_numbers(n, m, op) ==
    IF as_i64(n) # None /\ as_i64(m) # None
    THEN LET exact == int_op(op, n[2], m[2])
         IN  IF FitsI64(exact) THEN single(Num(exact))
             ELSE IF overflow_checks THEN Panic("arithmetic overflow")
             ELSE single(Num(WrapI64(exact)))
    ELSE LET r == float_op(op, as_f64(n), as_f64(m))
         IN  single(from_f64(r[1], r[2]))

\* the closures |a, b| a / b and a % b on f64
float_div_op(op, x, y) ==
    LET t == TruncDiv(x[1] * y[2], x[2] * y[1])
    IN  IF op = "div" THEN <<x[1] * y[2], x[2] * y[1]>>
        ELSE <<x[1] * y[2] - t * y[1] * x[2], x[2] * y[2]>>

\* fn divide_numbers.  `n % m` of the guard panics for i64::MIN and -1 in
\* every build.
divide_numbers(n, m, op) ==
    IF as_i64(n) # None /\ as_i64(m) # None
    THEN LET a == n[2]
             b == m[2]
         IN  IF b = 0 THEN Err(ErrNumerical)
             ELSE IF a = I64_MIN /\ b = -1
             THEN Panic("attempt to calculate the remainder with overflow")
             ELSE IF TruncRem(a, b) = 0
             THEN single(Num(IF op = "div" THEN TruncDiv(a, b) ELSE TruncRem(a, b)))
             ELSE LET r == float_div_op(op, <<a, 1>>, <<b, 1>>)
                  IN  single(from_f64(r[1], r[2]))
    ELSE LET x == as_f64(n)
             y == as_f64(m)
         IN  IF y[1] = 0 THEN Err(ErrNumerical)
             ELSE LET r == float_div_op(op, x, y)
                  IN  single(from_f64(r[1], r[2]))

\* fn multiply_objects
RECURSIVE multiply_objects(_, _)
RECURSIVE multiply_into(_, _, _)
multiply_into(map, l, r) ==
    IF r = <<>> THEN map
    ELSE LET k == Head(r)[1]
             v == Head(r)[2]
             old == map_get(l, k)
             insert == IF old[1] = "Some" /\ old[2][1] = "object" /\ v[1] = "object"
                       THEN multiply_objects(old[2][2], v[2])
                       ELSE v
         IN  multiply_into(map_insert(map, k, insert), l, Tail(r))

multiply_objects(l, r) == Obj(multiply_into(l, l, r))

\* fn add
add(l, r) ==
    CASE l[1] = "number" /\ r[1] = "number" -> combine_numbers(l, r, "add")
      [] l[1] = "string" /\ r[1] = "string" -> single(Str(chain_collect(l[2], r[2])))
      [] l[1] = "array" /\ r[1] = "array" -> single(Arr(chain_collect(l[2], r[2])))
      [] l[1] = "object" /\ r[1] = "object" -> single(Obj(chain_collect_map(l[2], r[2])))
      [] l[1] = "null" /\ r[1] = "null" -> null
      [] l[1] # "null" /\ r[1] = "null" -> single(l)
      [] l[1] = "null" /\ r[1] # "null" -> single(r)
      [] OTHER -> Err(ErrOperation("add", type_str(l), type_str(r)))

\* (mutant of sub: a Null on the left gives the right operand, as in add)
sub_null_either(l, r) ==
    CASE l[1] = "number" /\ r[1] = "number" -> combine_numbers(l, r, "sub")
      [] l[1] = "array" /\ r[1] = "array" ->
            single(Arr(SelectSeq(l[2], LAMBDA v : \A i \in 1..Len(r[2]) : r[2][i] # v)))
      [] l[1] = "null" /\ r[1] = "null" -> null
      [] l[1] # "null" /\ r[1] = "null" -> single(l)
      [] l[1] = "null" /\ r[1] # "null" -> single(r)
      [] OTHER -> Err(ErrOperation("subtract", type_str(l), type_str(r)))

\* fn sub
sub(l, r) ==
    CASE l[1] = "number" /\ r[1] = "number" -> combine_numbers(l, r, "sub")
      [] l[1] = "array" /\ r[1] = "array" ->
            single(Arr(SelectSeq(l[2], LAMBDA v : \A i \in 1..Len(r[2]) : r[2][i] # v)))
      [] l[1] = "null" /\ r[1] = "null" -> null
      [] l[1] # "null" /\ r[1] = "null" -> single(l)
      [] OTHER -> Err(ErrOperation("subtract", type_str(l), type_str(r)))

\* std::iter::repeat(s).take(i).collect()
repeat(s, i) == [k \in 1..(Len(s) * i) |-> s[((k - 1) % Len(s)) + 1]]

\* fn mul
mul(l, r) ==
    CASE l[1] = "number" /\ r[1] = "number" -> combine_numbers(l, r, "mul")
      [] l[1] = "string" /\ r[1] = "number" ->
            IF as_u64(r) = None THEN Err(ErrNumerical)
            ELSE IF r[2] = 0 THEN null
            ELSE single(Str(repeat(l[2], r[2])))
      [] l[1] = "object" /\ r[1] = "object" -> single(multiply_objects(l[2], r[2]))
      [] l[1] = "null" /\ r[1] = "null" -> null
      [] l[1] # "null" /\ r[1] = "null" -> single(l)
      [] l[1] = "null" /\ r[1] # "null" -> single(r)
      [] OTHER -> Err(ErrOperation("multiply", type_str(l), type_str(r)))

\* str::split with the pattern t: the pieces between the matches of t, found
\* left to right; an empty pattern matches before and after every character
RECURSIVE split_pieces(_, _, _)
split_pieces(s, t, cur) ==
    IF s = <<>> THEN <<cur>>
    ELSE IF Len(s) >= Len(t) /\ SubSeq(s, 1, Len(t)) = t
    THEN <<cur>> \o split_pieces(SubSeq(s, Len(t) + 1, Len(s)), t, <<>>)
    ELSE split_pieces(Tail(s), t, cur \o <<Head(s)>>)

str_split(s, t) ==
    IF t = <<>> THEN <<<<>>>> \o [i \in 1..Len(s) |-> <<s[i]>>] \o <<<<>>>>
    ELSE split_pieces(s, t, <<>>)

\* fn div
div(l, r) ==
    CASE l[1] = "number" /\ r[1] = "number" -> divide_numbers(l, r, "div")
      [] l[1] = "string" /\ r[1] = "string" ->
            LET pieces == str_split(l[2], r[2])
            IN  single(Arr([i \in 1..Len(pieces) |-> Str(pieces[i])]))
      [] l[1] = "null" /\ r[1] = "null" -> null
      [] l[1] # "null" /\ r[1] = "null" -> single(l)
      [] OTHER -> Err(ErrOperation("divide", type_str(l), type_str(r)))

\* fn modulus
modulus(l, r) ==
    CASE l[1] = "number" /\ r[1] = "number" -> divide_numbers(l, r, "rem")
      [] l[1] = "null" /\ r[1] = "null" -> null
      [] l[1] # "null" /\ r[1] = "null" -> single(l)
      [] OTHER -> Err(ErrOperation("divide (remainder)", type_str(l), type_str(r)))

\* fn operate
operate(sign, l, r) ==
    CASE sign = Sign_Add -> add(l, r)
      [] sign = Sign_Sub -> sub(l, r)
      [] sign = Sign_Mul -> mul(l, r)
      [] sign = Sign_Div -> div(l, r)
      [] sign = Sign_Mod -> modulus(l, r)

\* (mutant of Op::execute: the right results are the outer loop)
Op_execute_right_outer(self, v) ==
    LET ls == execute(self[2], v)
        rs == execute(self[4], v)
    IN  IF ~IsOk(ls) THEN ls
        ELSE IF ~IsOk(rs) THEN rs
        ELSE LET nl == Len(ls[2])
                 nr == Len(rs[2])
             IN  iterate_results(
                     [k \in 1..(nl * nr) |->
                         operate(self[3], ls[2][((k - 1) % nl) + 1],
                                 rs[2][((k - 1) \div nl) + 1])])

\* Op::execute: left.execute(value)?, right.execute(value)?, then operate on
\* every pair of cartesian_product, the left results being the outer loop
Op_execute(self, v) ==
    LET ls == execute(self[2], v)
        rs == execute(self[4], v)
    IN  IF ~IsOk(ls) THEN ls
        ELSE IF ~IsOk(rs) THEN rs
        ELSE LET nl == Len(ls[2])
                 nr == Len(rs[2])
             IN  iterate_results(
                     [k \in 1..(nl * nr) |->
                         operate(self[3], ls[2][((k - 1) \div nr) + 1],
                                 rs[2][((k - 1) % nr) + 1])])

----------------------------------------------------------------------------
(* The Query enum that holds the nodes of combinator.rs and index.rs       *)
(* (Query::Index(Index), Query::Iterator, Query::Split(Box<Split>), ...)   *)
(* is not among the sources.  Its variants are dispatched to the execute   *)
(* of the node they hold; Iterator yields the elements of an array or the  *)
(* values of an object and fails with Iterate on anything else.            *)

IndexQ(i) == <<"Index", i>>
IteratorQ == <<"Iterator">>

Executable_execute(q, v) ==
    CASE q[1] = "Index" -> Index_execute(q[2], v)
      [] q[1] = "Iterator" ->
            IF v[1] = "array" THEN Ok(v[2])
            ELSE IF v[1] = "object" THEN Ok(map_values(v[2]))
            ELSE Err(ErrIterate(type_str(v)))
      [] q[1] = "Split" -> Split_execute(q, v)
      [] q[1] = "Chain" -> Chain_execute(q, v)
      [] q[1] = "Optional" -> Optional_execute(q, v)
      [] q[1] = "Contruct" -> Construct_execute(q[2], v)
      [] q[1] = "Op" -> Op_execute(q, v)
      [] q[1] = "Raw" -> Raw_execute(q, v)

----------------------------------------------------------------------------
\* (mutant of Query::execute: the test for the Null document is missing)
execute_without_null_rule(q, v) ==
    CASE q[1] = "Empty" -> empty
      [] q[1] = "Identity" -> single(v)
      [] q[1] = "Index" /\ Len(q) = 4 -> check(index(v, q[2], q[4]), q[3])
      [] q[1] = "Iterator" /\ Len(q) = 3 -> check(iterate(v, q[3]), q[2])
      [] q[1] = "Spliterator" -> split(v, q[2], q[3])
      [] q[1] = "Pipe" -> pipe(v, q[2], q[3])
      [] OTHER -> Executable_execute(q, v)

\* Query::execute (query.rs).  The last arm hands the nodes of the later
\* enum to Executable_execute, under the same rule for the Null document.
execute(q, v) ==
    IF is_null(v) THEN null
    ELSE CASE q[1] = "Empty" -> empty
           [] q[1] = "Identity" -> single(v)
           [] q[1] = "Index" /\ Len(q) = 4 -> check(index(v, q[2], q[4]), q[3])
           [] q[1] = "Iterator" /\ Len(q) = 3 -> check(iterate(v, q[3]), q[2])
           [] q[1] = "Spliterator" -> split(v, q[2], q[3])
           [] q[1] = "Pipe" -> pipe(v, q[2], q[3])
           [] OTHER -> Executable_execute(q, v)

----------------------------------------------------------------------------
(* Parsing.  A text is a sequence of one-character strings; a parser gives *)
(* <<"ok", rest, output>> or <<"error">> (nom::Err::Error).                *)

POk(rest, out) == <<"ok", rest, out>>
PErr == <<"error">>
PIsOk(r) == r[1] = "ok"

Digits == <<"0", "1", "2", "3", "4", "5", "6", "7", "8", "9">>
IsDigit(c) == \E d \in 1..10 : Digits[d] = c
DigitVal(c) == (CHOOSE d \in 1..10 : Digits[d] = c) - 1
Letters ==
    {"a", "b", "c", "d", "e", "f", "g", "h", "i", "j", "k", "l", "m", "n", "o",
     "p", "q", "r", "s", "t", "u", "v", "w", "x", "y", "z",
     "A", "B", "C", "D", "E", "F", "G", "H", "I", "J", "K", "L", "M", "N", "O",
     "P", "Q", "R", "S", "T", "U", "V", "W", "X", "Y", "Z"}
IsAlnum(c) == c \in Letters \/ IsDigit(c)

\* nom char(c)
char(c, input) ==
    IF input # <<>> /\ Head(input) = c THEN POk(Tail(input), c) ELSE PErr

\* nom tag(t)
tag(t, input) ==
    IF Len(input) >= Len(t) /\ SubSeq(input, 1, Len(t)) = t
    THEN POk(SubSeq(input, Len(t) + 1, Len(input)), t)
    ELSE PErr

\* length of the longest prefix of input whose characters are alphanumeric
RECURSIVE AlnumRun(_)
AlnumRun(input) ==
    IF input # <<>> /\ IsAlnum(Head(input)) THEN 1 + AlnumRun(Tail(input)) ELSE 0

\* nom alphanumeric1
alphanumeric1(input) ==
    LET n == AlnumRun(input)
    IN  IF n = 0 THEN PErr ELSE POk(SubSeq(input, n + 1, Len(input)), SubSeq(input, 1, n))

\* nom space0 (space::before / space::after / space::around wrap a parser in it)
RECURSIVE space0(_)
space0(input) ==
    IF input # <<>> /\ Head(input) \in {" ", "\t"} THEN space0(Tail(input)) ELSE input

\* the digit loop of nom's i32: checked_mul(10) then checked_add / checked_sub
\* of each digit; <<"overflow">> when a step leaves the i32 range
RECURSIVE I32Digits(_, _, _)
I32Digits(input, acc, neg) ==
    IF input = <<>> \/ ~IsDigit(Head(input)) THEN <<"ok", input, acc>>
    ELSE LET d == DigitVal(Head(input))
         IN  IF neg
             THEN IF acc < (I32_MIN + d) \div 10 + (IF (I32_MIN + d) % 10 = 0 THEN 0 ELSE 1)
                  THEN <<"overflow">>
                  ELSE I32Digits(Tail(input), acc * 10 - d, neg)
             ELSE IF acc > (I32_MAX - d) \div 10
                  THEN <<"overflow">>
                  ELSE I32Digits(Tail(input), acc * 10 + d, neg)

\* nom character::complete::i32: an optional sign, then at least one digit
i32(input) ==
    LET signed == input # <<>> /\ Head(input) \in {"+", "-"}
        neg == input # <<>> /\ Head(input) = "-"
        body == IF signed THEN Tail(input) ELSE input
    IN  IF body = <<>> \/ ~IsDigit(Head(body)) THEN PErr
        ELSE LET r == I32Digits(body, 0, neg)
             IN  IF r[1] = "overflow" THEN PErr ELSE POk(r[2], r[3])

\* nom alt of two parsers on the same text: the second runs when the first
\* fails
or_else(r, alt) == IF PIsOk(r) THEN r ELSE alt

\* range.rs fn parse: `l:u`, `:u` or `l:`
Range_parser(input) ==
    LET \* separated_pair(i32, char(':'), i32) mapped by Range::new
        new3(l, u) == IF PIsOk(u) THEN POk(u[2], Range_new(l[3], u[3])) ELSE PErr
        new2(l, c) == IF PIsOk(c) THEN new3(l, i32(c[2])) ELSE PErr
        new1(l) == IF PIsOk(l) THEN new2(l, char(":", l[2])) ELSE PErr
        \* preceded(char(':'), i32) mapped by Range::upper
        upper2(u) == IF PIsOk(u) THEN POk(u[2], Range_upper(u[3])) ELSE PErr
        upper1(c) == IF PIsOk(c) THEN upper2(i32(c[2])) ELSE PErr
        \* terminated(i32, char(':')) mapped by Range::lower
        lower2(l, c) == IF PIsOk(c) THEN POk(c[2], Range_lower(l[3])) ELSE PErr
        lower1(l) == IF PIsOk(l) THEN lower2(l, char(":", l[2])) ELSE PErr
    IN  or_else(new1(i32(input)),
        or_else(upper1(char(":", input)),
                lower1(i32(input))))

\* length of the longest prefix of input without a double quote
RECURSIVE UnquotedRun(_)
UnquotedRun(input) ==
    IF input # <<>> /\ Head(input) # "\"" THEN 1 + UnquotedRun(Tail(input)) ELSE 0

\* delimited(char('"'), take_while1(|c| c != '"'), char('"'))
quoted_string(input) ==
    LET open == char("\"", input)
        n == IF PIsOk(open) THEN UnquotedRun(open[2]) ELSE 0
        close == IF n > 0 THEN char("\"", SubSeq(open[2], n + 1, Len(open[2]))) ELSE PErr
    IN  IF PIsOk(close) THEN POk(close[2], SubSeq(open[2], 1, n)) ELSE PErr

\* index.rs Index::parser: `[` slice | integer | "key" `]`, spaces allowed
\* inside the brackets
Index_parser(input) ==
    LET slice(r) == IF PIsOk(r) THEN POk(r[2], Index_Slice(r[3])) ELSE PErr
        integer(n) == IF PIsOk(n) THEN POk(n[2], Index_Integer(n[3])) ELSE PErr
        string(s) == IF PIsOk(s) THEN POk(s[2], Index_String(s[3])) ELSE PErr
        inner(text) == or_else(slice(Range_parser(text)),
                       or_else(integer(i32(text)),
                               string(quoted_string(text))))
        closed(body, close) == IF PIsOk(close) THEN POk(close[2], body[3]) ELSE PErr
        close(body) == IF PIsOk(body) THEN closed(body, char("]", space0(body[2]))) ELSE PErr
        open(o) == IF PIsOk(o) THEN close(inner(space0(o[2]))) ELSE PErr
    IN  open(char("[", input))

----------------------------------------------------------------------------
(* parse.rs: the grammar of filters *)

\* opt(char('?')) with opt.is_some() as its output
opt_question(input) ==
    IF PIsOk(char("?", input)) THEN POk(Tail(input), TRUE) ELSE POk(input, FALSE)

RECURSIVE parser(_)

\* fn index
index_parser(input) ==
    LET build(i, opt, next) ==
            IF PIsOk(next) THEN POk(next[2], Index(i[3], opt[3], next[3])) ELSE PErr
        after_opt(i, opt) == build(i, opt, parser(opt[2]))
        after_i(i) == IF PIsOk(i) THEN after_opt(i, opt_question(i[2])) ELSE PErr
    IN  after_i(Index_parser(input))

\* fn iterator
iterator_parser(input) ==
    LET build(opt, next) ==
            IF PIsOk(next) THEN POk(next[2], Iterator(opt[3], next[3])) ELSE PErr
        after_opt(opt) == build(opt, parser(opt[2]))
        after_tag(t) == IF PIsOk(t) THEN after_opt(opt_question(t[2])) ELSE PErr
    IN  after_tag(tag(<<"[", "]">>, input))

\* fn bare_object_index
bare_object_index(input) ==
    LET build(i, opt, next) ==
            IF PIsOk(next)
            THEN POk(next[2], Index(Index_String(i[3]), opt[3], next[3]))
            ELSE PErr
        after_opt(i, opt) == build(i, opt, parser(opt[2]))
        after_i(i) == IF PIsOk(i) THEN after_opt(i, opt_question(i[2])) ELSE PErr
        after_dot(dot) == IF PIsOk(dot) THEN after_i(alphanumeric1(dot[2])) ELSE PErr
    IN  after_dot(char(".", input))

\* fn parser: what may follow an element of a postfix chain
parser(input) ==
    or_else(bare_object_index(input),
    or_else(index_parser(input),
    or_else(iterator_parser(input),
            POk(input, Identity))))

RECURSIVE pipe_parser(_)

\* construction.rs fn parse_array: `[` pipe `]`
parse_array(input) ==
    LET closed(inner, close) ==
            IF PIsOk(close) THEN POk(close[2], Construct_Array(inner[3])) ELSE PErr
        close(inner) == IF PIsOk(inner) THEN closed(inner, char("]", space0(inner[2]))) ELSE PErr
        open(o) == IF PIsOk(o) THEN close(pipe_parser(space0(o[2]))) ELSE PErr
    IN  open(char("[", input))

\* fn init_parser: the start of a postfix chain.  Of construction::parse the
\* array literal is modelled; the filters of the model hold no `{`, and the
\* object constructions of the model are built as trees.
init_parser(input) ==
    LET contruct(c) == IF PIsOk(c) THEN POk(c[2], Contruct(c[3])) ELSE PErr
        dotted(dot) ==
            IF PIsOk(dot)
            THEN or_else(index_parser(dot[2]),
                 or_else(iterator_parser(dot[2]),
                         POk(dot[2], Identity)))
            ELSE PErr
    IN  or_else(bare_object_index(input),
        or_else(contruct(parse_array(input)),
                dotted(char(".", input))))

\* fn split
RECURSIVE split_parser(_)
split_parser(input) ==
    LET build(curr, next) ==
            IF PIsOk(next) THEN POk(next[2], Spliterator(curr[3], next[3])) ELSE curr
        after_comma(curr, comma) ==
            IF PIsOk(comma) THEN build(curr, split_parser(comma[2])) ELSE curr
        after_curr(curr) ==
            IF PIsOk(curr) THEN after_comma(curr, char(",", curr[2])) ELSE PErr
    IN  after_curr(init_parser(input))

\* fn pipe
pipe_parser(input) ==
    LET build(curr, next) ==
            IF PIsOk(next) THEN POk(next[2], Pipe(curr[3], next[3])) ELSE curr
        after_bar(curr, bar) ==
            IF PIsOk(bar) THEN build(curr, pipe_parser(bar[2])) ELSE curr
        after_curr(curr) ==
            IF PIsOk(curr) THEN after_bar(curr, char("|", curr[2])) ELSE PErr
    IN  after_curr(split_parser(input))

ParseError == <<"ParseError">>

\* (mutant of parse: all_consuming is missing, the rest of the text is dropped)
parse_prefix(input) ==
    IF input = <<>> THEN Empty
    ELSE LET r == pipe_parser(input)
         IN  IF PIsOk(r) THEN r[3] ELSE ParseError

\* fn parse: Empty for the empty text, else all_consuming(pipe)
parse(input) ==
    IF input = <<>> THEN Empty
    ELSE LET r == pipe_parser(input)
         IN  IF PIsOk(r) /\ r[2] = <<>> THEN r[3] ELSE ParseError

----------------------------------------------------------------------------
(* The grammar of the operators.  parse_add, parse_mul and parse_div are   *)
(* in operators.rs, optional and chain in combinator.rs; parse_init,       *)
(* parse_chain, and the levels of `,` and `|` above parse_add are not      *)
(* among the sources.  They follow the parsing tests of combinator.rs      *)
(* (`.,.,.` is Split(., Split(., .)), `.|.|.` is Chain(., Chain(., .)),    *)
(* `.[5][8][13]` is a chain, `.foo.[0]` an error).  The filters of the     *)
(* model hold no literal, no construction and no `..`.                     *)

\* fn optional, applied to the result r of the parser it wraps
optional(r) ==
    LET mark(q) == IF PIsOk(q) THEN POk(q[2], Optional(r[3])) ELSE r
    IN  IF PIsOk(r) THEN mark(char("?", r[2])) ELSE PErr

RECURSIVE parse_chain(_)

\* (mutant of chain: the element and the rest of the chain are exchanged)
chain_swapped(r) ==
    LET link(next) == IF PIsOk(next) THEN POk(next[2], Chain(next[3], r[3])) ELSE r
    IN  IF PIsOk(r) THEN link(parse_chain(r[2])) ELSE PErr

\* fn chain, applied to the result r of the parser it wraps
chain(r) ==
    LET link(next) == IF PIsOk(next) THEN POk(next[2], Chain(r[3], next[3])) ELSE r
    IN  IF PIsOk(r) THEN link(parse_chain(r[2])) ELSE PErr

\* `.foo`: Query::Index(Index::String(foo))
shorthand_index(input) ==
    LET key(k) == IF PIsOk(k) THEN POk(k[2], IndexQ(Index_String(k[3]))) ELSE PErr
        named(dot) == IF PIsOk(dot) THEN key(alphanumeric1(dot[2])) ELSE PErr
    IN  named(char(".", input))

\* `[...]`: Query::Index of Index::parser
bracket_index(input) ==
    LET wrap(i) == IF PIsOk(i) THEN POk(i[2], IndexQ(i[3])) ELSE PErr
    IN  wrap(Index_parser(input))

\* `[]`: Query::Iterator
bracket_iterator(input) ==
    LET wrap(t) == IF PIsOk(t) THEN POk(t[2], IteratorQ) ELSE PErr
    IN  wrap(tag(<<"[", "]">>, input))

\* the elements that follow the first one of a postfix chain
parse_chain(input) ==
    or_else(chain(optional(shorthand_index(input))),
    or_else(chain(optional(bracket_index(input))),
            chain(optional(bracket_iterator(input)))))

\* the first element of a postfix chain, or the identity
parse_init(input) ==
    LET dotted(dot) ==
            IF PIsOk(dot)
            THEN or_else(chain(optional(bracket_index(dot[2]))),
                 or_else(chain(optional(bracket_iterator(dot[2]))),
                         POk(dot[2], Identity)))
            ELSE PErr
    IN  or_else(chain(optional(shorthand_index(input))),
                dotted(char(".", input)))

\* the Sign of a character
sign_of(c) ==
    CASE c = "+" -> Sign_Add
      [] c = "-" -> Sign_Sub
      [] c = "*" -> Sign_Mul
      [] c = "/" -> Sign_Div
      [] c = "%" -> Sign_Mod

\* space::around(alt((value(sign, char(c)), ...))) for the characters cs
sign_parser(cs, input) ==
    LET at(s) ==
            IF s # <<>> /\ Head(s) \in cs
            THEN POk(space0(Tail(s)), sign_of(Head(s)))
            ELSE PErr
    IN  at(space0(input))

\* (mutant of parse_div: a run of `/` and `%` nests to the left)
RECURSIVE parse_div_left_loop(_)
parse_div_left_loop(left) ==
    LET build(sign, right) ==
            IF PIsOk(right)
            THEN parse_div_left_loop(POk(right[2], Op(left[3], sign[3], right[3])))
            ELSE left
        after_sign(sign) ==
            IF PIsOk(sign) THEN build(sign, parse_init(sign[2])) ELSE left
    IN  after_sign(sign_parser({"/", "%"}, left[2]))

parse_div_left(input) ==
    LET after_left(left) == IF PIsOk(left) THEN parse_div_left_loop(left) ELSE PErr
    IN  after_left(parse_init(input))

\* fn parse_div
RECURSIVE parse_div(_)
parse_div(input) ==
    LET build(left, sign, right) ==
            IF PIsOk(right) THEN POk(right[2], Op(left[3], sign[3], right[3])) ELSE left
        after_sign(left, sign) ==
            IF PIsOk(sign) THEN build(left, sign, parse_div(sign[2])) ELSE left
        after_left(left) ==
            IF PIsOk(left) THEN after_sign(left, sign_parser({"/", "%"}, left[2])) ELSE PErr
    IN  after_left(parse_init(input))

\* (mutant of parse_mul: `*` is parsed at the level of `/` and `%`)
RECURSIVE parse_mul_same_level(_)
parse_mul_same_level(input) ==
    LET build(left, sign, right) ==
            IF PIsOk(right) THEN POk(right[2], Op(left[3], sign[3], right[3])) ELSE left
        after_sign(left, sign) ==
            IF PIsOk(sign) THEN build(left, sign, parse_mul_same_level(sign[2])) ELSE left
        after_left(left) ==
            IF PIsOk(left)
            THEN after_sign(left, sign_parser({"*", "/", "%"}, left[2]))
            ELSE PErr
    IN  after_left(parse_init(input))

\* fn parse_mul
RECURSIVE parse_mul(_)
parse_mul(input) ==
    LET build(left, sign, right) ==
            IF PIsOk(right) THEN POk(right[2], Op(left[3], sign[3], right[3])) ELSE left
        after_sign(left, sign) ==
            IF PIsOk(sign) THEN build(left, sign, parse_mul(sign[2])) ELSE left
        after_left(left) ==
            IF PIsOk(left) THEN after_sign(left, sign_parser({"*"}, left[2])) ELSE PErr
    IN  after_left(parse_div(input))

\* fn parse_add
RECURSIVE parse_add(_)
parse_add(input) ==
    LET build(left, sign, right) ==
            IF PIsOk(right) THEN POk(right[2], Op(left[3], sign[3], right[3])) ELSE left
        after_sign(left, sign) ==
            IF PIsOk(sign) THEN build(left, sign, parse_add(sign[2])) ELSE left
        after_left(left) ==
            IF PIsOk(left) THEN after_sign(left, sign_parser({"+", "-"}, left[2])) ELSE PErr
    IN  after_left(parse_mul(input))

\* the level of `,`: Split of an operator expression and the rest
RECURSIVE parse_split(_)
parse_split(input) ==
    LET build(curr, next) ==
            IF PIsOk(next) THEN POk(next[2], Split(curr[3], next[3])) ELSE curr
        after_comma(curr, comma) ==
            IF PIsOk(comma) THEN build(curr, parse_split(comma[2])) ELSE curr
        after_curr(curr) ==
            IF PIsOk(curr) THEN after_comma(curr, char(",", curr[2])) ELSE PErr
    IN  after_curr(parse_add(input))

\* the level of `|`: Chain of a split and the rest
RECURSIVE parse_pipe(_)
parse_pipe(input) ==
    LET build(curr, next) ==
            IF PIsOk(next) THEN POk(next[2], Chain(curr[3], next[3])) ELSE curr
        after_bar(curr, bar) ==
            IF PIsOk(bar) THEN build(curr, parse_pipe(bar[2])) ELSE curr
        after_curr(curr) ==
            IF PIsOk(curr) THEN after_bar(curr, char("|", curr[2])) ELSE PErr
    IN  after_curr(parse_split(input))

\* Query::parse: Empty for the empty text, else all_consuming(parse_pipe)
Query_parse(input) ==
    IF input = <<>> THEN Empty
    ELSE LET r == parse_pipe(input)
         IN  IF PIsOk(r) /\ r[2] = <<>> THEN r[3] ELSE ParseError

----------------------------------------------------------------------------
(* The inputs of the model *)

KeyA == <<"a">>
KeyB == <<"b">>

\* elements of the input arrays
Elems == {Null, Num(1), Num(2), Obj(<<<<KeyA, Num(1)>>>>), Arr(<<Num(1)>>)}

SeqsUpTo(S, n) == UNION {[1..k -> S] : k \in 0..n}

Arrays == {Arr(a) : a \in SeqsUpTo(Elems, MaxLen)}

Objects ==
    {Obj(<<>>),
     Obj(<<<<KeyA, Num(1)>>>>),
     Obj(<<<<KeyA, Null>>>>),
     Obj(<<<<KeyB, Num(2)>>>>),
     Obj(<<<<KeyA, Num(1)>>, <<KeyB, Str(<<"x", "y">>)>>>>),
     Obj(<<<<KeyA, Arr(<<Num(1), Num(2)>>)>>, <<KeyB, Null>>>>),
     Obj(<<<<KeyA, Obj(<<<<KeyB, Num(2)>>>>)>>>>),
     Obj(<<<<KeyA, Str(<<"b">>)>>, <<KeyB, Str(<<"a">>)>>>>),
     Obj(<<<<KeyA, Str(<<"k">>)>>, <<KeyB, Num(2)>>>>)}

Scalars == {Null, Bool(TRUE), Num(1), Str(<<"x", "y", "z">>)}

Values == Scalars \cup Arrays \cup Objects

\* integer positions: around the lengths of the arrays, and i32::MIN
Positions == (-(MaxLen + 1))..(MaxLen + 1) \cup {I32_MIN}

\* bounds of slices: inside, at and beyond the ends of the arrays, and i32::MIN
SliceBounds == {-(MaxLen + 1), -1, 0, 1, MaxLen, MaxLen + 1, I32_MIN}

\* the ranges Range::new, Range::lower and Range::upper build
Ranges ==
    {Range_new(l, u) : l \in SliceBounds, u \in SliceBounds}
        \cup {Range_lower(l) : l \in SliceBounds}
        \cup {Range_upper(u) : u \in SliceBounds}

Indexes ==
    {Index_String(KeyA), Index_String(KeyB)}
        \cup {Index_Integer(i) : i \in Positions}
        \cup {Index_Slice(r) : r \in Ranges}

\* query.rs trees: single elements, chains of two elements, and
\* Spliterator / Pipe over a few operands
Elements ==
    {Index(i, o, Identity) : i \in Indexes, o \in BOOLEAN}
        \cup {Iterator(o, Identity) : o \in BOOLEAN}

Operands ==
    {Empty, Identity,
     Index(Index_String(KeyA), FALSE, Identity),
     Index(Index_String(KeyA), TRUE, Identity),
     Index(Index_Integer(0), FALSE, Identity),
     Iterator(FALSE, Identity)}

QueriesOfQueryRs ==
    {Empty, Identity} \cup Elements
        \cup {Spliterator(a, b) : a \in Operands, b \in Operands}
        \cup {Pipe(a, b) : a \in Operands, b \in Operands}
        \cup {Pipe(Pipe(a, b), c) : a \in Operands, b \in Operands, c \in Operands}
        \cup {Pipe(a, Pipe(b, c)) : a \in Operands, b \in Operands, c \in Operands}

\* trees of the nodes of combinator.rs and index.rs
OperandsQ ==
    {Empty, Identity, IteratorQ,
     IndexQ(Index_String(KeyA)), IndexQ(Index_Integer(0)),
     Optional(IndexQ(Index_String(KeyA)))}

QueriesOfCombinatorRs ==
    {IteratorQ} \cup {IndexQ(i) : i \in Indexes}
        \cup {Optional(q) : q \in OperandsQ}
        \cup {Optional(IndexQ(i)) : i \in Indexes}
        \cup {Split(a, b) : a \in OperandsQ, b \in OperandsQ}
        \cup {Chain(a, b) : a \in OperandsQ, b \in OperandsQ}
        \cup {Optional(Chain(a, b)) : a \in OperandsQ, b \in OperandsQ}
        \cup {Optional(Split(a, b)) : a \in OperandsQ, b \in OperandsQ}
        \cup {Chain(Chain(a, b), c) : a \in OperandsQ, b \in OperandsQ, c \in OperandsQ}
        \cup {Chain(a, Chain(b, c)) : a \in OperandsQ, b \in OperandsQ, c \in OperandsQ}

\* entries of object constructions: literal and computed keys, values that
\* give none, one and several results or fail
Entries ==
    {<<Key_Simple(KeyA), Iterator(FALSE, Identity)>>,
     <<Key_Simple(KeyB), Iterator(FALSE, Identity)>>,
     <<Key_Simple(KeyA), Index(Index_String(KeyB), FALSE, Identity)>>,
     <<Key_Simple(KeyA), Index(Index_String(KeyA), FALSE, Identity)>>,
     <<Key_Simple(KeyB), Identity>>,
     <<Key_Simple(KeyB), Empty>>,
     <<Key_Query(Iterator(FALSE, Identity)), Identity>>,
     <<Key_Query(IndexQ(Index_String(KeyA))), IndexQ(Index_String(KeyB))>>}

QueriesOfConstructionRs ==
    {Contruct(Construct_Array(q)) : q \in Operands \cup OperandsQ}
        \cup {Contruct(Construct_Array(Spliterator(a, b))) : a \in Operands, b \in Operands}
        \cup {Contruct(Construct_Object(kvs)) : kvs \in SeqsUpTo(Entries, MaxEntries)}

Queries == QueriesOfQueryRs \cup QueriesOfCombinatorRs \cup QueriesOfConstructionRs

\* filter texts
Filters ==
    {<<>>,
     <<".">>,
     <<".", ".", ".">>,
     <<".", "a">>,
     <<".", "a", "?">>,
     <<".", "a", ".", "b">>,
     <<".", "a", "?", ".", "b">>,
     <<".", "a", ".", "b", "?">>,
     <<".", "[", "]">>,
     <<".", "[", "]", "?">>,
     <<".", "[", "]", "?", "[", "0", "]">>,
     <<".", "[", "]", "[", "0", "]", "?">>,
     <<".", "[", "0", "]">>,
     <<".", "[", "-", "1", "]">>,
     <<".", "[", "0", "]", "?", ".", "a">>,
     <<".", "[", "\"", "a", "\"", "]">>,
     <<".", "[", "1", ":", "]">>,
     <<".", "[", "1", ":", "0", "]">>,
     <<".", "[", ":", "-", "1", "]">>,
     <<".", "[", ":", "]">>,
     <<".", "a", ".", "[", "0", "]">>,
     <<".", "a", ",", ".", "b">>,
     <<".", "[", "]", "|", ".", "a">>,
     <<"[", ".", "a", "?", "]">>}

NoFilter == <<"no filter">>
NotParsed == <<"not parsed">>
NoResult == <<"none">>

----------------------------------------------------------------------------
(* The program: main.rs parses the filter, executes the query against the  *)
(* document and prints the results; the library entry points are parse and *)
(* Query::execute.                                                         *)

Init ==
    /\ value \in Values
    /\ overflow_checks \in BOOLEAN
    /\ result = NoResult
    /\ \/ /\ filter \in Filters
          /\ query = NotParsed
          /\ pc = "parse"
       \/ /\ filter = NoFilter
          /\ query \in Queries
          /\ pc = "ready"

\* query_input.parse()
Parse ==
    /\ pc = "parse"
    /\ query' = parse(filter)
    /\ pc' = IF query' = ParseError THEN "done" ELSE "ready"
    /\ UNCHANGED <<filter, value, overflow_checks, result>>

\* query.execute(&value)
Execute ==
    /\ pc = "ready"
    /\ result' = execute(query, value)
    /\ pc' = "done"
    /\ UNCHANGED <<filter, query, value, overflow_checks>>

Next == Parse \/ Execute

Spec == Init /\ [][Next]_vars

----------------------------------------------------------------------------
(* The inputs of the operators *)

KeyC == <<"c">>

\* numbers: small integers, the ends of i64, and floats (0.0, 0.5, 2.5)
OpNumbers ==
    {Num(n) : n \in {-1, 0, 1, 2, 3, 4, 7, I64_MAX, I64_MIN}}
        \cup {from_f64(0, 1), from_f64(1, 2), from_f64(5, 2)}

OpStrings == {Str(<<>>), Str(<<"a">>), Str(<<"a", "b", "a">>)}

OpArrays == {Arr(<<>>), Arr(<<Num(2)>>), Arr(<<Num(1), Num(2), Num(1)>>)}

\* objects that share no key, share a key with plain values, and share a key
\* under which both hold an Object
OpObjects ==
    {Obj(<<>>),
     Obj(<<<<KeyA, Num(1)>>>>),
     Obj(<<<<KeyA, Num(2)>>, <<KeyB, Null>>>>),
     Obj(<<<<KeyC, Num(3)>>>>),
     Obj(<<<<KeyA, Obj(<<<<KeyA, Num(1)>>>>)>>>>),
     Obj(<<<<KeyA, Obj(<<<<KeyB, Num(2)>>>>)>>, <<KeyB, Num(2)>>>>),
     Obj(<<<<KeyA, Obj(<<<<KeyA, Obj(<<<<KeyA, Num(1)>>>>)>>>>)>>>>),
     Obj(<<<<KeyA, Obj(<<<<KeyA, Obj(<<<<KeyB, Num(2)>>>>)>>, <<KeyC, Num(3)>>>>)>>>>)}

OpValues ==
    {Null, Bool(TRUE)} \cup OpNumbers \cup OpStrings \cup OpArrays \cup OpObjects

\* operands: literals, and queries that give none, two or three results or fail
OpOperands ==
    {Raw(v) : v \in OpValues}
        \cup {Empty, Identity, IteratorQ,
              Split(Raw(Num(1)), Raw(Num(2))),
              Split(Raw(Num(4)), Raw(Null)),
              Split(Raw(Str(<<"a">>)), Raw(Num(0)))}

Signs == {Sign_Add, Sign_Sub, Sign_Mul, Sign_Div, Sign_Mod}

OpQueries == {Op(l, s, r) : l \in OpOperands, s \in Signs, r \in OpOperands}

\* documents of the Op trees
OpDocuments == {Null, Num(1), Arr(<<Num(7), Num(0), Num(2)>>)}

\* documents of the filters: numbers under the keys a, b and c
KeyedNumbers == {1, 2, 8}

OpFilterDocuments ==
    {Obj(<<<<KeyA, Num(x)>>, <<KeyB, Num(y)>>, <<KeyC, Num(z)>>>>) :
        x \in KeyedNumbers, y \in KeyedNumbers, z \in KeyedNumbers}
        \cup {Null, Arr(<<Num(1), Num(2)>>)}

OpFilters ==
    {<<>>,
     <<".">>,
     <<".", "a">>,
     <<".", "a", "+", ".", "b">>,
     <<".", "a", "+">>,
     <<"+", ".", "a">>,
     <<".", "a", "-", ".", "b", "-", ".", "c">>,
     <<".", "a", " ", "-", " ", ".", "b", " ", "-", " ", ".", "c">>,
     <<".", "a", "/", ".", "b", "/", ".", "c">>,
     <<".", "a", " ", "/", " ", ".", "b", " ", "/", " ", ".", "c">>,
     <<".", "a", "+", ".", "b", "+", ".", "c">>,
     <<".", "a", "*", ".", "b", "*", ".", "c">>,
     <<".", "a", "%", ".", "b", "%", ".", "c">>,
     <<".", "a", "-", ".", "b", "+", ".", "c">>,
     <<".", "a", "/", ".", "b", "%", ".", "c">>,
     <<".", "a", "%", ".", "b", "/", ".", "c">>,
     <<".", "a", "+", ".", "b", "*", ".", "c">>,
     <<".", "a", "*", ".", "b", "+", ".", "c">>,
     <<".", "a", "-", ".", "b", "/", ".", "c">>,
     <<".", "a", "/", ".", "b", "-", ".", "c">>,
     <<".", "a", "%", ".", "b", "+", ".", "c">>,
     <<".", "a", "/", ".", "b", "*", ".", "c">>,
     <<".", "a", "*", ".", "b", "/", ".", "c">>,
     <<".", "a", "%", ".", "b", "*", ".", "c">>,
     <<".", "a", "*", ".", "b", "%", ".", "c">>,
     <<".", "a", ",", ".", "b", "|", ".", "c">>,
     <<".", "a", "|", ".", "b", ",", ".", "c">>,
     <<".", "a", ",", ".", "b", "+", ".", "c">>,
     <<".", "a", "+", ".", "b", ",", ".", "c">>,
     <<".", "a", "|", ".", "b", "+", ".", "c">>,
     <<".", "a", "*", ".", "b", "|", ".", "c">>,
     <<".", "a", ",", ".", "b", ",", ".", "c">>,
     <<".", "a", "|", ".", "b", "|", ".", "c">>,
     <<".", "[", "5", "]", "[", "8", "]", "[", "1", "3", "]">>,
     <<".", "f", "o", "o", ".", "b", "a", "r", ".", "b", "a", "z">>,
     <<".", "f", "o", "o", ".", "[", "0", "]">>,
     <<".", "[", "0", "]", ".", "[", "0", "]">>,
     <<".", "[", "]", ".", "[", "]">>,
     <<".", "[", "]", "[", "]", "[", "]">>,
     <<".", "a", ".", "b">>,
     <<".", "a", "[", "0", "]">>,
     <<".", "[", "0", "]", ".", "a">>,
     <<".", "a", "[", "]">>,
     <<".", "[", "]", "?", ".", "a">>,
     <<".", "a", "?", ".", "b">>,
     <<".", "f", "o", "o", " ", ".", "f", "o", "o">>,
     <<".", "a", ".", "[", "]">>,
     <<".", "[", "0", "]", "[", "]", "?">>,
     <<".", "[", "1", ":", "]", ".", "[", "0", "]">>}

----------------------------------------------------------------------------
(* The program with the operators: the filter is parsed by Query::parse,   *)
(* or the tree is given, and the query is executed against the document.   *)

InitOp ==
    /\ overflow_checks \in BOOLEAN
    /\ result = NoResult
    /\ \/ /\ filter \in OpFilters
          /\ value \in OpFilterDocuments
          /\ query = NotParsed
          /\ pc = "parse"
       \/ /\ filter = NoFilter
          /\ value \in OpDocuments
          /\ query \in OpQueries
          /\ pc = "ready"

\* query_input.parse()
ParseQuery ==
    /\ pc = "parse"
    /\ query' = Query_parse(filter)
    /\ pc' = IF query' = ParseError THEN "done" ELSE "ready"
    /\ UNCHANGED <<filter, value, overflow_checks, result>>

NextOp == ParseQuery \/ Execute

SpecOp == InitOp /\ [][NextOp]_vars

----------------------------------------------------------------------------
(* Properties *)

Done == pc = "done"

IsChainNode(q) == q[1] \in {"Pipe", "Chain"}
IsSplitNode(q) == q[1] \in {"Spliterator", "Split"}
IsIndexOrIterator(q) == q[1] \in {"Index", "Iterator"}
IsIntegerIndex(q) == q[1] = "Index" /\ q[2][1] = "Integer"

\* the results of S on each of the values rs, joined left to right
RECURSIVE ConcatOver(_, _)
ConcatOver(S, rs) ==
    IF rs = <<>> THEN <<>>
    ELSE ConcatOver(S, SubSeq(rs, 1, Len(rs) - 1)) \o execute(S, rs[Len(rs)])[2]

\* C1: Chain(F, S) (and Pipe, its form in query.rs) yields the results of S
\* on each result of F, in order; it fails with F's error when F fails; and
\* it yields nothing, whatever S is, when F yields nothing.
C1_ChainFlatMaps ==
    (Done /\ IsChainNode(query)) =>
        LET F == query[2]
            S == query[3]
            fr == execute(F, value)
        IN  /\ IsErr(fr) => result = fr
            /\ (IsOk(fr) /\ fr[2] = <<>>) => result = Ok(<<>>)
            /\ (IsOk(fr) /\ \A i \in 1..Len(fr[2]) : IsOk(execute(S, fr[2][i])))
                    => result = Ok(ConcatOver(S, fr[2]))

\* C1 witness: a chain whose first query gave several results, each piped on
C1_Witness ==
    /\ Done /\ IsChainNode(query) /\ ~is_null(value)
    /\ IsOk(execute(query[2], value)) /\ Len(execute(query[2], value)[2]) >= 2
    /\ IsOk(result) /\ Len(result[2]) >= 2

\* C2: Split(L, R) (Spliterator in query.rs) yields L's results followed by
\* R's on every document, Null included, and fails when L or R fails.
C2_SplitConcatenates ==
    (Done /\ IsSplitNode(query)) =>
        LET l == execute(query[2], value)
            r == execute(query[3], value)
        IN  /\ (IsErr(l) \/ IsErr(r)) => IsErr(result)
            /\ (IsOk(l) /\ IsOk(r)) => result = Ok(l[2] \o r[2])

\* C3: Optional(q) never returns an error: q's results when q succeeds, no
\* results when q fails, wherever inside q the failure arises.
C3_OptionalNeverFails ==
    (Done /\ query[1] = "Optional") =>
        LET inner == execute(query[2], value)
        IN  /\ ~IsErr(result)
            /\ IsOk(inner) => result = inner
            /\ IsErr(inner) => result = Ok(<<>>)

\* C3 witness: the inner query is a chain whose first part succeeded and whose
\* second part failed, and Optional gave no results
C3_Witness ==
    /\ Done /\ query[1] = "Optional" /\ query[2][1] = "Chain"
    /\ IsOk(execute(query[2][2], value))
    /\ IsErr(execute(query[2], value))
    /\ result = Ok(<<>>)

\* filters whose first chain element carries `?`: <<filter, first element, later element>>
SuffixedChains ==
    {<<<<".", "a", "?", ".", "b">>, <<".", "a", "?">>, <<".", "b">>>>,
     <<<<".", "[", "]", "?", "[", "0", "]">>, <<".", "[", "]", "?">>, <<".", "[", "0", "]">>>>,
     <<<<".", "[", "0", "]", "?", ".", "a">>, <<".", "[", "0", "]", "?">>, <<".", "a">>>>}

\* C4: `?` on one chain element suppresses that element's errors only: when a
\* later element fails on a result of the first, the whole filter fails.
C4_OptionalSuffixIsLocal ==
    \A c \in SuffixedChains :
        (Done /\ filter = c[1]) =>
            LET fr == execute(parse(c[2]), value)
            IN  (IsOk(fr) /\ \E i \in 1..Len(fr[2]) : IsErr(execute(parse(c[3]), fr[2][i])))
                    => IsErr(result)

IsLeftNested(q) == IsChainNode(q) /\ q[2][1] = q[1]
Reassociated(q) == <<q[1], q[2][2], <<q[1], q[2][3], q[3]>>>>

\* C5, as claimed: Chain(Chain(a, b), c) and Chain(a, Chain(b, c)) have the
\* same outcome, the error included.
C5_ChainAssociativeSameOutcome ==
    (Done /\ IsLeftNested(query)) => result = execute(Reassociated(query), value)

\* C5, amended: the two give the same results when either succeeds and one
\* fails exactly when the other does; the error reported may differ.
C5_ChainAssociativeResults ==
    (Done /\ IsLeftNested(query)) =>
        LET right == execute(Reassociated(query), value)
        IN  /\ IsOk(result) <=> IsOk(right)
            /\ IsOk(result) => result = right

\* C5 witness: a left-nested chain that gave several results
C5_Witness ==
    /\ Done /\ IsLeftNested(query) /\ ~is_null(value)
    /\ IsOk(result) /\ Len(result[2]) >= 2

\* C6: Identity yields exactly the document, Null included.
C6_Identity ==
    (Done /\ query = Identity) => result = Ok(<<value>>)

\* C6 witness: the filter `.` executed on an array
C6_Witness ==
    Done /\ filter = <<".">> /\ query = Identity /\ value[1] = "array" /\ IsOk(result)

\* C7: an Index (key, position or slice) or the Iterator on Null yields [Null];
\* `.a.b` on {"a": null} yields [null].
C7_NullAbsorption ==
    /\ (Done /\ IsIndexOrIterator(query) /\ value = Null) => result = Ok(<<Null>>)
    /\ (Done /\ filter = <<".", "a", ".", "b">> /\ value = Obj(<<<<KeyA, Null>>>>))
            => result = Ok(<<Null>>)

\* C7 witness: a slice executed on Null
C7_Witness ==
    Done /\ value = Null /\ query[1] = "Index" /\ query[2][1] = "Slice" /\ IsOk(result)

\* C8: Empty yields no results on every document, Null included.
C8_EmptyYieldsNothing ==
    (Done /\ query = Empty) => result = Ok(<<>>)

\* the Index node of q with the position i in place of q's
WithPosition(q, i) ==
    IF Len(q) = 4 THEN Index(Index_Integer(i), q[3], q[4]) ELSE IndexQ(Index_Integer(i))

\* C9: on an array of length n, position -k with 0 < k <= n gives what
\* position n - k gives; k = n gives the first element.
C9_NegativeIndexEquivalence ==
    (Done /\ value[1] = "array" /\ IsIntegerIndex(query)) =>
        LET n == Len(value[2])
            i == query[2][2]
        IN  (i < 0 /\ -n <= i) =>
                /\ result = execute(WithPosition(query, n + i), value)
                /\ (i = -n) => result = execute(WithPosition(query, 0), value)

\* C10: an integer position on an array always succeeds with one value: the
\* element when the position is inside the array, Null otherwise.
C10_IntegerIndexTotal ==
    (Done /\ value[1] = "array" /\ IsIntegerIndex(query)) =>
        LET n == Len(value[2])
            i == query[2][2]
            pos == IF i < 0 THEN n + i ELSE i
        IN  result = IF 0 <= pos /\ pos < n THEN Ok(<<value[2][pos + 1]>>) ELSE Ok(<<Null>>)

IsSliceIndex(q) ==
    q[1] = "Index" /\ q[2][1] = "Slice" /\ (Len(q) = 4 => q[4] = Identity)

\* the position a bound stands for in a sequence of the given length:
\* len - min(|b|, len) for a negative b, min(b, len) otherwise
ClampedBound(b, len) ==
    IF b < 0 THEN (IF b < -len THEN 0 ELSE len + b)
    ELSE (IF b > len THEN len ELSE b)

\* the span <<start, end>> a range stands for
ClampedSpan(r, len) ==
    <<IF r[1] = None THEN 0 ELSE ClampedBound(r[1][1], len),
      IF r[2] = None THEN len ELSE ClampedBound(r[2][1], len)>>

\* C11: a slice of an array always succeeds with one Array: the elements of
\* the normalized span, and the empty Array when the span's start is at or
\* after its end.
C11_SliceTotal ==
    (Done /\ value[1] = "array" /\ IsSliceIndex(query)) =>
        LET s == ClampedSpan(query[2][2], Len(value[2]))
        IN  result = Ok(<<Arr(IF s[1] <= s[2]
                              THEN SubSeq(value[2], s[1] + 1, s[2])
                              ELSE <<>>)>>)

\* C12: for every length and every i32 bound Range::normalize returns the
\* span of the independently clamped bounds, the start possibly after the end.
C12_NormalizeClamps ==
    (Done /\ value[1] \in {"array", "string"} /\ IsSliceIndex(query)) =>
        LET s == ClampedSpan(query[2][2], Len(value[2]))
        IN  normalize(query[2][2], Len(value[2])) = <<"range", s[1], s[2]>>

IsKeyIndex(q) ==
    q[1] = "Index" /\ q[2][1] = "String" /\ (Len(q) = 4 => q[4] = Identity)

HasKey(m, k) == \E e \in 1..Len(m) : m[e][1] = k
ValueAt(m, k) == m[CHOOSE e \in 1..Len(m) : m[e][1] = k][2]

\* C13: a key on an object succeeds with one value: the value stored under
\* the key, or Null when the object has no such key.
C13_ObjectIndex ==
    (Done /\ value[1] = "object" /\ IsKeyIndex(query)) =>
        result = IF HasKey(value[2], query[2][2])
                 THEN Ok(<<ValueAt(value[2], query[2][2])>>)
                 ELSE Ok(<<Null>>)

\* C13 witness: a key that a non-empty object does not hold gave Null
C13_Witness ==
    /\ Done /\ value[1] = "object" /\ value[2] # <<>> /\ IsKeyIndex(query)
    /\ ~HasKey(value[2], query[2][2])
    /\ result = Ok(<<Null>>)

\* an Index node alone: no `?` flag and nothing after it
IsPlainIndex(q) ==
    q[1] = "Index" /\ (Len(q) = 4 => (q[3] = FALSE /\ q[4] = Identity))

\* the kinds of value an index variant applies to
Fits(i, v) ==
    CASE i[1] = "String" -> v[1] = "object"
      [] i[1] = "Integer" -> v[1] = "array"
      [] i[1] = "Slice" -> v[1] \in {"array", "string"}

\* C14, as claimed: an Index fails exactly when the non-null value does not
\* fit its variant, and the error names the found type and the expected
\* container: "object" for a key, "array" for a position.
C14_MismatchNamesContainer ==
    (Done /\ ~is_null(value) /\ IsPlainIndex(query)) =>
        /\ IsErr(result) <=> ~Fits(query[2], value)
        /\ (IsErr(result) /\ query[2][1] = "String")
                => result = Err(<<"Index", value[1], "object">>)
        /\ (IsErr(result) /\ query[2][1] = "Integer")
                => result = Err(<<"Index", value[1], "array">>)

\* C14, amended: the error names the found type and the kind of the index
\* that was applied: "string" for a key, "number" for a position, "slice"
\* for a slice.
C14_MismatchNamesIndexKind ==
    (Done /\ ~is_null(value) /\ IsPlainIndex(query)) =>
        /\ IsErr(result) <=> ~Fits(query[2], value)
        /\ IsErr(result) =>
                result = Err(<<"Index", value[1],
                               CASE query[2][1] = "String" -> "string"
                                 [] query[2][1] = "Integer" -> "number"
                                 [] query[2][1] = "Slice" -> "slice">>)

\* C14 witness: a position applied to an object failed
C14_Witness ==
    /\ Done /\ value[1] = "object" /\ IsPlainIndex(query)
    /\ query[2][1] = "Integer" /\ IsErr(result)

IsPlainIterator(q) == q = Iterator(FALSE, Identity) \/ q = IteratorQ

\* C15: the Iterator gives the elements of an array in order, the values of
\* an object in the order of its map, and fails with Iterate and the found
\* type on a bool, a number or a string.
C15_Iterator ==
    (Done /\ ~is_null(value) /\ IsPlainIterator(query)) =>
        result = CASE value[1] = "array" -> Ok(value[2])
                   [] value[1] = "object" ->
                        Ok([e \in 1..Len(value[2]) |-> value[2][e][2]])
                   [] OTHER -> Err(<<"Iterate", value[1]>>)

\* C15 witness: an object of two entries gave its two values
C15_Witness ==
    /\ Done /\ IsPlainIterator(query)
    /\ value[1] = "object" /\ Len(value[2]) = 2
    /\ IsOk(result) /\ Len(result[2]) = 2

IsArrayConstruct(q) == q[1] = "Contruct" /\ q[2][1] = "Array"
IsObjectConstruct(q) == q[1] = "Contruct" /\ q[2][1] = "Object"

\* what Construct::execute gives for the construction held by the query
Constructed == Construct_execute(query[2], value)

\* C16: when the inner query succeeds, array construction gives exactly one
\* Array holding all its results in order, for no result and for many; when
\* the inner query fails the construction fails.
C16_ArrayConstruction ==
    (Done /\ IsArrayConstruct(query)) =>
        LET inner == execute(query[2][2], value)
        IN  /\ IsOk(inner) => Constructed = Ok(<<Arr(inner[2])>>)
            /\ IsErr(inner) => Constructed = inner
            /\ ~is_null(value) => result = Constructed

\* C16 witness: an inner query without results gave one empty Array
C16_Witness ==
    /\ Done /\ IsArrayConstruct(query) /\ ~is_null(value)
    /\ execute(query[2][2], value) = Ok(<<>>)
    /\ result = Ok(<<Arr(<<>>)>>)

\* the results of the key query of an entry are all Strings
KeysAreStrings(v, kv) ==
    kv[1][1] = "Query" =>
        /\ IsOk(execute(kv[1][2], v))
        /\ \A i \in 1..Len(execute(kv[1][2], v)[2]) : execute(kv[1][2], v)[2][i][1] = "string"

\* the entry evaluates: its keys are Strings and its value query succeeds
EntrySucceeds(v, kv) == KeysAreStrings(v, kv) /\ IsOk(execute(kv[2], v))

\* the keys of an entry that evaluates
KeysOf(v, kv) ==
    IF kv[1][1] = "Simple" THEN <<kv[1][2]>>
    ELSE [i \in 1..Len(execute(kv[1][2], v)[2]) |-> execute(kv[1][2], v)[2][i][2]]

ValuesOf(v, kv) == execute(kv[2], v)[2]

\* the product, over the entries from j on, of keys times values
RECURSIVE Combinations(_, _, _)
Combinations(v, kvs, j) ==
    IF j > Len(kvs) THEN 1
    ELSE Len(KeysOf(v, kvs[j])) * Len(ValuesOf(v, kvs[j])) * Combinations(v, kvs, j + 1)

AllEntriesSucceed(v, kvs) == \A j \in 1..Len(kvs) : EntrySucceeds(v, kvs[j])

\* C17: object construction gives one Object per combination: as many as the
\* product over the entries of keys times values, and one empty Object for
\* no entries.
C17_ObjectCount ==
    (Done /\ IsObjectConstruct(query) /\ AllEntriesSucceed(value, query[2][2])) =>
        \A made \in {Constructed} :
            /\ IsOk(made)
            /\ Len(made[2]) = Combinations(value, query[2][2], 1)
            /\ \A i \in 1..Len(made[2]) : made[2][i][1] = "object"
            /\ query[2][2] = <<>> => made = Ok(<<Obj(<<>>)>>)
            /\ ~is_null(value) => result = made

\* C17 witness: two entries of different keys and two values each gave four
\* objects
C17_Witness ==
    /\ Done /\ IsObjectConstruct(query) /\ ~is_null(value)
    /\ Len(query[2][2]) = 2
    /\ \A j \in 1..2 : /\ EntrySucceeds(value, query[2][2][j])
                         /\ Len(ValuesOf(value, query[2][2][j])) = 2
    /\ KeysOf(value, query[2][2][1]) # KeysOf(value, query[2][2][2])
    /\ IsOk(result) /\ Len(result[2]) = 4

\* the <<key, value>> pairs of an entry, the keys in the outer loop
PairsOf(v, kv) ==
    [p \in 1..(Len(KeysOf(v, kv)) * Len(ValuesOf(v, kv))) |->
        <<KeysOf(v, kv)[((p - 1) \div Len(ValuesOf(v, kv))) + 1],
          ValuesOf(v, kv)[((p - 1) % Len(ValuesOf(v, kv))) + 1]>>]

\* no other entry can give the key k
OnlyEntryWithKey(v, kvs, j, k) ==
    \A o \in 1..Len(kvs) :
        o # j => \A p \in 1..Len(PairsOf(v, kvs[o])) : PairsOf(v, kvs[o])[p][1] # k

\* the pair of entry j in combination i (from 0) when the first entry is the
\* outermost loop and the last entry the innermost
PairFirstOutermost(v, kvs, j, i) ==
    PairsOf(v, kvs[j])[((i \div Combinations(v, kvs, j + 1)) % Len(PairsOf(v, kvs[j]))) + 1]

\* C18: the objects come in the order of a cartesian product whose outermost
\* loop is the first entry and whose innermost loop is the last entry.
C18_FirstEntryOutermost ==
    (Done /\ IsObjectConstruct(query) /\ ~is_null(value)
          /\ AllEntriesSucceed(value, query[2][2])) =>
        /\ IsOk(result)
        /\ \A i \in 1..Len(result[2]) : \A j \in 1..Len(query[2][2]) :
                LET kv == PairFirstOutermost(value, query[2][2], j, i - 1)
                IN  OnlyEntryWithKey(value, query[2][2], j, kv[1]) =>
                        /\ HasKey(result[2][i][2], kv[1])
                        /\ ValueAt(result[2][i][2], kv[1]) = kv[2]

\* every entry gives exactly one key
OneKeyEach(v, kvs) == \A j \in 1..Len(kvs) : Len(KeysOf(v, kvs[j])) = 1

\* C19: when two entries give the same key, each Object holds under that key
\* a value of the entry declared later.
C19_LaterEntryWins ==
    (Done /\ IsObjectConstruct(query)
          /\ AllEntriesSucceed(value, query[2][2])
          /\ OneKeyEach(value, query[2][2])) =>
        \A made \in {Constructed},
           key \in {[j \in 1..Len(query[2][2]) |-> KeysOf(value, query[2][2][j])[1]]},
           vals \in {[j \in 1..Len(query[2][2]) |-> ValuesOf(value, query[2][2][j])]} :
            /\ IsOk(made)
            /\ \A i \in 1..Len(made[2]) : \A j \in 1..Len(key) :
                    (\A o \in (j + 1)..Len(key) : key[o] # key[j])
                        => /\ HasKey(made[2][i][2], key[j])
                           /\ \E p \in 1..Len(vals[j]) :
                                    ValueAt(made[2][i][2], key[j]) = vals[j][p]
            /\ ~is_null(value) => result = made

\* C19 witness: two entries with the same key and different values gave one
\* object holding the value of the second entry
C19_Witness ==
    /\ Done /\ IsObjectConstruct(query) /\ ~is_null(value)
    /\ Len(query[2][2]) = 2
    /\ \A j \in 1..2 : EntrySucceeds(value, query[2][2][j])
    /\ OneKeyEach(value, query[2][2])
    /\ KeysOf(value, query[2][2][1]) = KeysOf(value, query[2][2][2])
    /\ Len(ValuesOf(value, query[2][2][1])) = 1
    /\ Len(ValuesOf(value, query[2][2][2])) = 1
    /\ ValuesOf(value, query[2][2][1]) # ValuesOf(value, query[2][2][2])
    /\ result = Ok(<<Obj(<<<<KeysOf(value, query[2][2][2])[1],
                            ValuesOf(value, query[2][2][2])[1]>>>>)>>)

\* the key query of the entry succeeds and some result of it is not a String
HasBadKey(v, kv) ==
    /\ kv[1][1] = "Query"
    /\ IsOk(execute(kv[1][2], v))
    /\ \E i \in 1..Len(execute(kv[1][2], v)[2]) : execute(kv[1][2], v)[2][i][1] # "string"

\* the type of the first result of the key query that is not a String
FirstBadKeyType(v, kv) ==
    LET ks == execute(kv[1][2], v)[2]
    IN  ks[CHOOSE i \in 1..Len(ks) :
                ks[i][1] # "string" /\ \A o \in 1..(i - 1) : ks[o][1] = "string"][1]

\* C20, as claimed: whenever a result of a computed key query is not a
\* String the construction fails with ObjectKey and the found type.
C20_BadKeyIsObjectKeyError ==
    (Done /\ IsObjectConstruct(query) /\ ~is_null(value)
          /\ \E j \in 1..Len(query[2][2]) : HasBadKey(value, query[2][2][j])) =>
        \E j \in 1..Len(query[2][2]) :
            /\ HasBadKey(value, query[2][2][j])
            /\ \E i \in 1..Len(execute(query[2][2][j][1][2], value)[2]) :
                    LET k == execute(query[2][2][j][1][2], value)[2][i]
                    IN  k[1] # "string" /\ result = Err(<<"ObjectKey", k[1]>>)

\* C20, amended: the construction fails and gives no objects; the failure is
\* that of the first entry, in declaration order, that fails, so it is
\* ObjectKey with the type of the first result that is not a String when
\* every entry declared before that key's entry evaluates.
C20_BadKeyFails ==
    (Done /\ IsObjectConstruct(query)
          /\ \E j \in 1..Len(query[2][2]) : HasBadKey(value, query[2][2][j])) =>
        \A made \in {Constructed} :
            /\ ~IsOk(made)
            /\ \A j \in 1..Len(query[2][2]) :
                    (/\ HasBadKey(value, query[2][2][j])
                     /\ \A o \in 1..(j - 1) : EntrySucceeds(value, query[2][2][o]))
                        => made = Err(<<"ObjectKey", FirstBadKeyType(value, query[2][2][j])>>)
            /\ ~is_null(value) => result = made

\* C20 witness: a key query gave a String and then a number, and the
\* construction failed with ObjectKey
C20_Witness ==
    /\ Done /\ IsObjectConstruct(query) /\ ~is_null(value)
    /\ Len(query[2][2]) >= 1 /\ HasBadKey(value, query[2][2][1])
    /\ execute(query[2][2][1][1][2], value)[2][1][1] = "string"
    /\ result = Err(<<"ObjectKey", "number">>)

----------------------------------------------------------------------------
(* Operators *)

IsOpNode(q) == q[1] = "Op"

\* an Op whose operands are two literals
IsLiteralOp(q) == q[1] = "Op" /\ q[2][1] = "Raw" /\ q[4][1] = "Raw"

PairsOk(sign, ls, rs) ==
    \A i \in 1..Len(ls), j \in 1..Len(rs) : IsOk(operate(sign, ls[i], rs[j]))

\* C21: Op evaluates both operands on the document; a failing operand is
\* the outcome (the left one first).  Otherwise operate is applied to every
\* pair, the left results being the outer loop: when every pair succeeds the
\* outcome holds (left results) x (right results) values, the value of the
\* pair (i, j) at place (i - 1) * (right results) + j; when a pair does not
\* succeed, Op does not succeed.
C21_OpCartesianProduct ==
    IsOpNode(query) =>
        \A ls \in {execute(query[2], value)}, rs \in {execute(query[4], value)},
           got \in {Op_execute(query, value)} :
            /\ ~IsOk(ls) => got = ls /\ IsErr(got)
            /\ IsOk(ls) /\ ~IsOk(rs) => got = rs /\ IsErr(got)
            /\ IsOk(ls) /\ IsOk(rs) =>
                    IF PairsOk(query[3], ls[2], rs[2])
                    THEN /\ IsOk(got)
                         /\ Len(got[2]) = Len(ls[2]) * Len(rs[2])
                         /\ \A i \in 1..Len(ls[2]), j \in 1..Len(rs[2]) :
                                <<got[2][(i - 1) * Len(rs[2]) + j]>>
                                    = operate(query[3], ls[2][i], rs[2][j])[2]
                    ELSE ~IsOk(got)
            /\ Done /\ ~is_null(value) => result = got

\* two left results and two right results give four values, the second and
\* the third of which differ
C21_Witness ==
    /\ Done
    /\ IsOpNode(query)
    /\ ~is_null(value)
    /\ IsOk(result)
    /\ Len(result[2]) = 4
    /\ Len(execute(query[2], value)[2]) = 2
    /\ result[2][2] # result[2][3]

IsObjectAdd(q) ==
    IsLiteralOp(q) /\ q[3] = Sign_Add /\ q[2][2][1] = "object" /\ q[4][2][1] = "object"

\* C22 as claimed: Add of two Objects is the deep merge that Mul of the two
\* Objects gives.
C22_AddIsDeepMerge ==
    IsObjectAdd(query) =>
        operate(Sign_Add, query[2][2], query[4][2])
            = single(multiply_objects(query[2][2][2], query[4][2][2]))

\* C22 as amended: Add of two Objects gives one Object whose keys are the keys
\* of the two; a key of the right Object holds the right value, also when
\* both values are Objects, and every other key holds the left value.
C22_AddIsShallowMerge ==
    IsObjectAdd(query) =>
        \A l \in {query[2][2][2]}, r \in {query[4][2][2]},
           got \in {operate(Sign_Add, query[2][2], query[4][2])} :
            /\ IsOk(got) /\ Len(got[2]) = 1 /\ got[2][1][1] = "object"
            /\ \A m \in {got[2][1][2]} :
                /\ \A i \in 1..Len(m) : HasKey(l, m[i][1]) \/ HasKey(r, m[i][1])
                /\ \A i \in 1..Len(m), j \in 1..Len(m) : i < j => key_lt(m[i][1], m[j][1])
                /\ \A i \in 1..Len(r) : map_get(m, r[i][1]) = <<"Some", r[i][2]>>
                /\ \A i \in 1..Len(l) :
                        ~HasKey(r, l[i][1]) => map_get(m, l[i][1]) = <<"Some", l[i][2]>>
            /\ Done /\ ~is_null(value) => result = got

\* both Objects hold an Object under a shared key, and the sum is not the
\* deep merge
C22_Witness ==
    /\ Done
    /\ IsObjectAdd(query)
    /\ ~is_null(value)
    /\ \E i \in 1..Len(query[2][2][2]), j \in 1..Len(query[4][2][2]) :
            /\ query[2][2][2][i][1] = query[4][2][2][j][1]
            /\ query[2][2][2][i][2][1] = "object"
            /\ query[4][2][2][j][2][1] = "object"
    /\ IsOk(result)
    /\ result # single(multiply_objects(query[2][2][2], query[4][2][2]))

\* C23: Null op Null is Null for the five signs; Add and Mul give the
\* operand that is not Null when one of the two is Null; Sub, Div and Mod
\* give the left operand when only the right one is Null and fail with
\* Operation when only the left one is Null.
C23_NullOperands ==
    IsLiteralOp(query) /\ (is_null(query[2][2]) \/ is_null(query[4][2])) =>
        \A l \in {query[2][2]}, r \in {query[4][2]},
           got \in {operate(query[3], query[2][2], query[4][2])} :
            /\ is_null(l) /\ is_null(r) => got = single(Null)
            /\ ~is_null(l) => got = single(l)
            /\ is_null(l) /\ ~is_null(r) /\ query[3] \in {Sign_Add, Sign_Mul} =>
                    got = single(r)
            /\ is_null(l) /\ ~is_null(r) /\ query[3] \in {Sign_Sub, Sign_Div, Sign_Mod} =>
                    IsErr(got) /\ got[2][1] = "Operation"
            /\ Done /\ ~is_null(value) => result = got

\* a subtraction from Null has failed with Operation
C23_Witness ==
    /\ Done
    /\ IsLiteralOp(query)
    /\ ~is_null(value)
    /\ query[3] = Sign_Sub
    /\ is_null(query[2][2])
    /\ ~is_null(query[4][2])
    /\ IsErr(result)
    /\ result[2][1] = "Operation"

IsNumber(v) == v[1] = "number"
IsInteger(v) == v[1] = "number" /\ Len(v) = 2
IsZero(v) == IF Len(v) = 2 THEN v[2] = 0 ELSE v[3] = 0

\* C24: Div and Mod of two Numbers fail with Numerical when the right one is
\* zero; for two integers with a right operand that is not zero they give
\* one Number, which is an integer exactly when the right operand divides
\* the left one.
C24_DivModOfNumbers ==
    /\ IsLiteralOp(query)
    /\ query[3] \in {Sign_Div, Sign_Mod}
    /\ IsNumber(query[2][2])
    /\ IsNumber(query[4][2])
    => \A l \in {query[2][2]}, r \in {query[4][2]},
          got \in {operate(query[3], query[2][2], query[4][2])} :
            /\ IsZero(r) => got = Err(ErrNumerical)
            /\ IsInteger(l) /\ IsInteger(r) /\ ~IsZero(r) =>
                    /\ IsOk(got)
                    /\ Len(got[2]) = 1
                    /\ IsNumber(got[2][1])
                    /\ IsInteger(got[2][1]) <=> (TruncRem(l[2], r[2]) = 0)

IsIntegerOp(q) == IsLiteralOp(q) /\ IsInteger(q[2][2]) /\ IsInteger(q[4][2])

\* the integer a sign gives, were the integers unbounded
ExactResult(sign, a, b) ==
    CASE sign = Sign_Add -> a + b
      [] sign = Sign_Sub -> a - b
      [] sign = Sign_Mul -> a * b

\* C29: Add, Sub and Mul of two i64 integers give the exact integer, or
\* Numerical when it is outside i64, in every build; Div and Mod of i64::MIN
\* by -1 give a value or Numerical.
C29_IntegerArithmeticIsChecked ==
    IsIntegerOp(query) =>
        \A a \in {query[2][2][2]}, b \in {query[4][2][2]},
           got \in {operate(query[3], query[2][2], query[4][2])} :
            /\ query[3] \in {Sign_Add, Sign_Sub, Sign_Mul} =>
                    got = IF FitsI64(ExactResult(query[3], a, b))
                          THEN single(Num(ExactResult(query[3], a, b)))
                          ELSE Err(ErrNumerical)
            /\ query[3] \in {Sign_Div, Sign_Mod} /\ a = I64_MIN /\ b = -1 =>
                    IsOk(got) \/ got = Err(ErrNumerical)

----------------------------------------------------------------------------
(* Parsing *)

Parsed == filter # NoFilter /\ query # NotParsed

\* C25: parse gives Empty for the empty text and for no other; for another
\* text it gives the query of the grammar when the grammar consumes the
\* whole text, and an error when characters are left over.
C25_ParseConsumesEverything ==
    Parsed =>
        /\ query = Empty <=> filter = <<>>
        /\ filter # <<>> =>
                \A r \in {pipe_parser(filter)} :
                    /\ query # ParseError <=> (PIsOk(r) /\ r[2] = <<>>)
                    /\ query # ParseError => query = r[3]

\* the grammar has taken a prefix of the text and parse has failed
C25_Witness ==
    /\ Parsed
    /\ query = ParseError
    /\ PIsOk(pipe_parser(filter))
    /\ pipe_parser(filter)[2] # <<>>
    /\ pipe_parser(filter)[2] # filter

\* the filters `.a X .b Y .c` with two operator characters X and Y
IsThreeOperands(f) ==
    /\ Len(f) = 8
    /\ <<f[1], f[2], f[4], f[5], f[7], f[8]>> = <<".", "a", ".", "b", ".", "c">>

OperandA == IndexQ(Index_String(KeyA))
OperandB == IndexQ(Index_String(KeyB))
OperandC == IndexQ(Index_String(KeyC))

\* the node an operator character builds
NodeOf(c, l, r) ==
    IF c = "|" THEN Chain(l, r)
    ELSE IF c = "," THEN Split(l, r)
    ELSE Op(l, sign_of(c), r)

LeftGrouped(f) == NodeOf(f[6], NodeOf(f[3], OperandA, OperandB), OperandC)
RightGrouped(f) == NodeOf(f[3], OperandA, NodeOf(f[6], OperandB, OperandC))

\* the four levels of the claim
LevelOfFour(c) ==
    CASE c = "|" -> 1
      [] c = "," -> 2
      [] c \in {"+", "-"} -> 3
      [] c \in {"*", "/", "%"} -> 4

\* the five levels of parse_pipe, parse_split, parse_add, parse_mul, parse_div
LevelOfFive(c) ==
    CASE c = "|" -> 1
      [] c = "," -> 2
      [] c \in {"+", "-"} -> 3
      [] c = "*" -> 4
      [] c \in {"/", "%"} -> 5

ThreeOperandFilters == {f \in OpFilters : IsThreeOperands(f)}

\* C26 as claimed: with the four levels, the operator of the higher level
\* groups first, and the operators of one level are grouped by one rule:
\* all of them to the right, or all of them to the left.
C26_FourLevels ==
    Parsed /\ IsThreeOperands(filter) =>
        /\ LevelOfFour(filter[3]) > LevelOfFour(filter[6]) => query = LeftGrouped(filter)
        /\ LevelOfFour(filter[3]) < LevelOfFour(filter[6]) => query = RightGrouped(filter)
        /\ \/ \A f \in ThreeOperandFilters :
                LevelOfFour(f[3]) = LevelOfFour(f[6]) => Query_parse(f) = RightGrouped(f)
           \/ \A f \in ThreeOperandFilters :
                LevelOfFour(f[3]) = LevelOfFour(f[6]) => Query_parse(f) = LeftGrouped(f)

\* C26 as amended: with the five levels (`*` below `/` and `%`), the operator
\* of the higher level groups first, and operators of one level nest to the
\* right.
C26_FiveLevels ==
    Parsed /\ IsThreeOperands(filter) =>
        /\ LevelOfFive(filter[3]) > LevelOfFive(filter[6]) => query = LeftGrouped(filter)
        /\ LevelOfFive(filter[3]) <= LevelOfFive(filter[6]) => query = RightGrouped(filter)

\* `.a/.b*.c` is parsed as the product of the quotient and `.c`
C26_Witness ==
    /\ Parsed
    /\ IsThreeOperands(filter)
    /\ filter[3] = "/"
    /\ filter[6] = "*"
    /\ query = Op(Op(OperandA, Sign_Div, OperandB), Sign_Mul, OperandC)

\* texts of postfix chains: no operator, no `|`, no `,`, no space
IsChainText(f) ==
    f # <<>> /\ \A i \in 1..Len(f) : f[i] \notin {"|", ",", "+", "-", "*", "/", "%", " "}

\* a `.` that is followed by `[` and is not the first character
DotBracketInside(f) == \E i \in 2..(Len(f) - 1) : f[i] = "." /\ f[i + 1] = "["

RECURSIVE NestsToTheRight(_)
NestsToTheRight(q) ==
    q[1] = "Chain" => q[2][1] # "Chain" /\ NestsToTheRight(q[3])

Text_5_8_13 == <<".", "[", "5", "]", "[", "8", "]", "[", "1", "3", "]">>
Text_foo_bar_baz == <<".", "f", "o", "o", ".", "b", "a", "r", ".", "b", "a", "z">>

\* C27: the elements of a postfix chain are chained to the right
\* (`.[5][8][13]` is Chain(.[5], Chain(.[8], .[13])), `.foo.bar.baz`
\* likewise), and a chain with `.[` after its start is a parse error.
C27_PostfixChain ==
    Parsed /\ IsChainText(filter) =>
        /\ query # ParseError => NestsToTheRight(query)
        /\ DotBracketInside(filter) => query = ParseError
        /\ filter = Text_5_8_13 =>
                query = Chain(IndexQ(Index_Integer(5)),
                              Chain(IndexQ(Index_Integer(8)), IndexQ(Index_Integer(13))))
        /\ filter = Text_foo_bar_baz =>
                query = Chain(IndexQ(Index_String(<<"f", "o", "o">>)),
                              Chain(IndexQ(Index_String(<<"b", "a", "r">>)),
                                    IndexQ(Index_String(<<"b", "a", "z">>))))

\* `.[5][8][13]` has been parsed to a chain of three elements
C27_Witness ==
    /\ Parsed
    /\ filter = Text_5_8_13
    /\ query[1] = "Chain"
    /\ query[3][1] = "Chain"

\* the Range of a query that is one slice index
SliceRangeOf(q) == q[2][2]

\* C28: the Range of every slice has a bound, and normalize gives a span for
\* it at every length.
C28_NormalizeGivesSpan ==
    query # NotParsed /\ query # ParseError /\ IsSliceIndex(query) =>
        \A r \in {SliceRangeOf(query)} :
            /\ r[1] # None \/ r[2] # None
            /\ \A len \in 0..(MaxLen + 1) : normalize(r, len)[1] = "range"

\* the document of the filters: numbers under the keys a, b and c
IsKeyedDocument(v) == v[1] = "object" /\ Len(v[2]) = 3

IsRunOf(f, cs) == IsThreeOperands(f) /\ f[3] \in cs /\ f[6] \in cs

Text_a_sub_b_sub_c == <<".", "a", "-", ".", "b", "-", ".", "c">>
Text_a_div_b_div_c == <<".", "a", "/", ".", "b", "/", ".", "c">>

\* C30: a run of `+` and `-`, and a run of `/` and `%`, nests to the right;
\* on numbers `.a-.b-.c` is a - (b - c) and `.a/.b/.c` is a / (b / c).
C30_RunsNestToTheRight ==
    /\ Parsed /\ (IsRunOf(filter, {"+", "-"}) \/ IsRunOf(filter, {"/", "%"})) =>
            query = RightGrouped(filter)
    /\ Done /\ IsKeyedDocument(value) /\ filter = Text_a_sub_b_sub_c =>
            \A a \in {value[2][1][2][2]}, b \in {value[2][2][2][2]}, c \in {value[2][3][2][2]} :
                result = single(Num(a - (b - c)))
    /\ Done /\ IsKeyedDocument(value) /\ filter = Text_a_div_b_div_c =>
            \A a \in {value[2][1][2][2]}, b \in {value[2][2][2][2]}, c \in {value[2][3][2][2]},
               x \in {as_f64(result[2][1])} :
                /\ IsOk(result) /\ Len(result[2]) = 1
                /\ from_f64(x[1], x[2]) = from_f64(a * c, b)

\* `.a-.b-.c` has given a - (b - c), which is not (a - b) - c
C30_Witness ==
    /\ Done
    /\ IsKeyedDocument(value)
    /\ filter = Text_a_sub_b_sub_c
    /\ result = single(Num(value[2][1][2][2] - (value[2][2][2][2] - value[2][3][2][2])))
    /\ result # single(Num((value[2][1][2][2] - value[2][2][2][2]) - value[2][3][2][2]))

====
